---- MODULE Spec2Model ----
(***************************************************************************)
(* Model of pycosim.simulation.SimulationConfiguration: the in-memory      *)
(* configuration (components, initial values, functions) and the           *)
(* OspSystemStructure it keeps in step with it.                            *)
(*                                                                         *)
(* OspSystemStructure, OspSimulator, OspInitialValue and the connection    *)
(* classes belong to the pyOSPParser package, which pycosim imports.  The  *)
(* operators named system_structure_* below state what pycosim's calls     *)
(* rely on, read from the call sites and from the assertions of            *)
(* test/test_simulation_configuration.py.  Calls are only made with        *)
(* arguments for which that behaviour is pinned down by the repository.    *)
(*                                                                         *)
(* The module also models the deployment of a configuration to a           *)
(* directory, run_simulation, and the functions of                         *)
(* pycosim.osp_command_line_interface that start the cosim engine.  The    *)
(* file system is the set of its directories and files; the engine is an   *)
(* external program that writes its output or fails.                       *)
(***************************************************************************)
EXTENDS Integers, Sequences, FiniteSets, TLC

VARIABLES
    components,              \* self.components: sequence of Component(name, fmu)
    initial_values,          \* self.initial_values: sequence of InitialValues
    initial_values_is_None,  \* TRUE when self.initial_values is None
    functions,               \* self.functions: sequence of Function
    Simulators,              \* self.system_structure.Simulators
    Connections,             \* self.system_structure.Connections, all kinds
    Functions,               \* self.system_structure.Functions (names)
    scenario,                \* self._scenario
    logging_config,          \* self._logging_config
    osp_model_description,   \* osp_model_description of an FMU object
    current_sim_path,        \* self._current_sim_path
    disk,                    \* the directories and files of the file system
    handlers,                \* the number of handlers of the root logger
    command,                 \* the arguments of the last Popen of the engine
    run,                     \* the run_simulation call in progress
    last                     \* the last call made on the configuration and its outcome

\* the configuration and its system structure
configuration == <<components, initial_values, initial_values_is_None, functions,
                   Simulators, Connections, Functions>>

\* the scenario and the logging configuration
settings == <<scenario, logging_config, osp_model_description>>

\* what deploying and running touch
environment == <<current_sim_path, disk, command, run, handlers>>

vars == <<components, initial_values, initial_values_is_None, functions,
          Simulators, Connections, Functions, scenario, logging_config,
          osp_model_description, current_sim_path, disk, command, run, handlers,
          last>>

-----------------------------------------------------------------------------
(* Bounds of the model *)

NumNames == 2
NumFMUs == 2
MaxInitialValues == 2
MaxConnections == 2
MaxEvents == 2
MaxDepth == 2
MaxGroups == 2
MaxVariables == 2
MaxHandlers == 2

-----------------------------------------------------------------------------
(* Sequence helpers (list.index, list.pop, list comprehension) *)

Range(s) == {s[i] : i \in DOMAIN s}

\* list.pop(i)
Pop(s, i) == [j \in 1..(Len(s) - 1) |-> IF j < i THEN s[j] ELSE s[j + 1]]

\* index of the first element satisfying Test, 0 when there is none
FirstIndex(s, Test(_)) ==
    IF \E i \in DOMAIN s : Test(s[i])
    THEN CHOOSE i \in DOMAIN s : Test(s[i]) /\ \A j \in 1..(i - 1) : ~Test(s[j])
    ELSE 0

\* [x for x in s if Test(x)]
Filter(s, Test(_)) == SelectSeq(s, Test)

-----------------------------------------------------------------------------
(* Input domains *)

AllNames == <<"chassis", "wheel", "ground", "body">>
ComponentNames == {AllNames[i] : i \in 1..NumNames}

\* Model metadata of the FMUs, as FMU.get_fmu_information_from_file stores it:
\* the names of the parameters, inputs, outputs and other variables.  A name
\* belongs to one class inside an FMU; different FMUs may use the same name
\* with different causality.
AllFMUs == <<
    [name |-> "F1", fmu_file |-> <<"fmus", "F1.fmu">>,
     parameters |-> <<"k">>, inputs |-> <<"u">>,
     outputs |-> <<"y">>, other_variables |-> <<"z">>],
    [name |-> "F2", fmu_file |-> <<"fmus", "F2.fmu">>,
     parameters |-> <<"k">>, inputs |-> <<"y">>,
     outputs |-> <<"z">>, other_variables |-> <<>>],
    [name |-> "F3", fmu_file |-> <<"fmus", "F3.fmu">>,
     parameters |-> <<"u">>, inputs |-> <<"k", "y">>,
     outputs |-> <<"z">>, other_variables |-> <<>>],
    [name |-> "F4", fmu_file |-> <<"fmus", "F4.fmu">>,
     parameters |-> <<>>, inputs |-> <<"z">>,
     outputs |-> <<"y">>, other_variables |-> <<"k">>] >>
\* a second FMU file of the model F1
CopyOfFMU == [AllFMUs[1] EXCEPT !.fmu_file = <<"fmus", "F1_copy.fmu">>]

NoValue == [t |-> "NoneType", v |-> 0]

\* A call and its outcome: the method, the exception raised ("ok" when none),
\* and the arguments the claims refer to.
NoEndpoint == [endpoint |-> "None", owner |-> "", name |-> ""]

Call(op, res, comp, var, val) ==
    [op |-> op, res |-> res, comp |-> comp, var |-> var, val |-> val, typ |-> "None",
     source |-> NoEndpoint, target |-> NoEndpoint, group |-> FALSE, follows |-> FALSE,
     before |-> <<>>, args |-> <<>>, returned |-> <<>>, error |-> ""]

\* A Python object as isinstance sees it, with the attributes the model
\* reads: the events of an OSPScenario, the simulators of an
\* OspLoggingConfiguration.
Object(class) == [class |-> class, events |-> <<>>, simulators |-> <<>>]

NoObject == Object("NoneType")

\* A path is the sequence of its components; None is the empty sequence.
NoPath == <<>>

\* os.path.basename and os.path.dirname of a path
basename(path) == path[Len(path)]

dirname(path) == SubSeq(path, 1, Len(path) - 1)

\* the engine, and a directory for output files
PATH_TO_COSIM == <<"pycosim", "cosim", "cosim">>

\* The call of run_simulation, run_cosimulation or run_single_fmu in
\* progress: where it stands (pc), its local variables, the standard error
\* read from the engine, how often the engine was started, and the steps
\* taken so far.
NoRun ==
    [pc |-> "idle", caller |-> "", mode |-> "", sim_path |-> <<>>, rel |-> <<>>,
     path |-> <<>>, logging_config |-> NoObject, output_given |-> FALSE,
     output_file_path |-> <<>>, delete_output |-> FALSE, scenario |-> NoObject,
     duration |-> NoValue, step_size |-> NoValue, logging_level |-> "",
     args |-> <<>>, written |-> {}, error |-> "", invoked |-> 0, steps |-> <<>>,
     logging_stream |-> FALSE, handlers |-> 0, result |-> {}]

-----------------------------------------------------------------------------
(* FMU *)

get_input_names(fmu) == fmu.inputs
get_output_names(fmu) == fmu.outputs
get_parameter_names(fmu) == fmu.parameters
-----------------------------------------------------------------------------
(* convert_value_to_osp_type *)

\* type_var(value) raises ValueError: float("x") and int("x").
CastRaises(value, type_var) ==
    type_var \in {"float", "int"} /\ value.t = "str"

\* type_var(value), for a cast that does not raise.  The only string drawn as
\* an input is "x"; str(n) is written as the string holding the number n.
Cast(value, type_var) ==
    CASE type_var = "float" -> [t |-> "float", v |-> value.v]
      [] type_var = "int" -> [t |-> "int", v |-> (value.v \div 10) * 10]
      [] type_var = "bool" ->
            [t |-> "bool", v |-> IF value.t = "str" \/ value.v # 0 THEN 10 ELSE 0]
      [] type_var = "str" -> [t |-> "str", v |-> value.v]
      [] OTHER -> value

\* The isinstance chain: a bool is an instance of int, so the OspInteger
\* branch takes it before the OspBoolean branch is reached.
OspTypeOf(value) ==
    CASE value.t = "float" -> "OspReal"
      [] value.t \in {"int", "bool"} -> "OspInteger"
      [] value.t = "str" -> "OspString"

convert_value_to_osp_type(value, type_var) ==
    LET cast == IF type_var # "None" THEN Cast(value, type_var) ELSE value
    IN  [osp |-> OspTypeOf(cast), value |-> cast]

\* Python's == on two values: numbers (float, int, bool) compare by amount,
\* a string only equals the same string.
PyEq(x, y) ==
    IF x.t = "str" \/ y.t = "str" THEN x = y ELSE x.v = y.v

-----------------------------------------------------------------------------
(* OspSystemStructure (pyOSPParser), as SimulationConfiguration uses it *)

OspSimulator(name, fmu) ==
    [name |-> name, source |-> basename(fmu.fmu_file), fmu_rel_path |-> <<>>,
     InitialValues |-> <<>>]

\* add_simulator: the simulator is appended to Simulators.
system_structure_add_simulator(sims, simulator) == Append(sims, simulator)

\* delete_simulator: the simulator of that name leaves Simulators, and its
\* InitialValues with it.
system_structure_delete_simulator(sims, name) ==
    Filter(sims, LAMBDA sim : sim.name # name)

\* add_update_initial_value: the simulator's InitialValues gets the value for
\* the variable, in place of an earlier value for the same variable.
system_structure_add_update_initial_value(sims, component_name, init_value) ==
    [i \in DOMAIN sims |->
        IF sims[i].name = component_name
        THEN [sims[i] EXCEPT !.InitialValues =
                Append(Filter(@, LAMBDA iv : iv.variable # init_value.variable),
                       init_value)]
        ELSE sims[i]]

\* delete_initial_value answers True when the simulator held a value for the
\* variable and dropped it, and a false value when there was nothing to drop.
system_structure_has_initial_value(sims, component_name, variable) ==
    \E i \in DOMAIN sims :
        /\ sims[i].name = component_name
        /\ \E j \in DOMAIN sims[i].InitialValues :
               sims[i].InitialValues[j].variable = variable

system_structure_delete_initial_value(sims, component_name, variable) ==
    [i \in DOMAIN sims |->
        IF sims[i].name = component_name
        THEN [sims[i] EXCEPT !.InitialValues =
                Filter(@, LAMBDA iv : iv.variable # variable)]
        ELSE sims[i]]

-----------------------------------------------------------------------------
(* SimulationConfiguration: construction *)

FMUByName(source) == CHOOSE fmu \in Range(AllFMUs) : basename(fmu.fmu_file) = source

Component(name, fmu) == [name |-> name, fmu |-> fmu]

InitialValues(component, variable, value) ==
    [component |-> component, variable |-> variable, value |-> value]

\* The system structure files a configuration is loaded from: two simulators
\* with one declared initial value each, the same two with none declared,
\* and a single simulator with one.
FileSimulator(name, fmu, declared) ==
    [name |-> name, source |-> basename(fmu.fmu_file), fmu_rel_path |-> <<>>,
     InitialValues |->
        [j \in 1..declared |->
            [variable |-> fmu.parameters[j],
             value |-> [osp |-> "OspReal", value |-> [t |-> "float", v |-> 15]]]]]

SystemStructureFiles ==
    { << FileSimulator(AllNames[1], AllFMUs[1], 1), FileSimulator(AllNames[2], AllFMUs[2], 1) >>,
      << FileSimulator(AllNames[1], AllFMUs[1], 0), FileSimulator(AllNames[2], AllFMUs[2], 0) >>,
      << FileSimulator(AllNames[2], AllFMUs[1], 1) >> }

\* __init__, system_structure given: one Component per Simulator, the list
\* of the simulators' initial values, and None in its place when it is empty.
RECURSIVE InitialValuesOfSimulators(_)
InitialValuesOfSimulators(sims) ==
    IF sims = <<>> THEN <<>>
    ELSE [j \in DOMAIN Head(sims).InitialValues |->
            InitialValues(Head(sims).name,
                          Head(sims).InitialValues[j].variable,
                          Head(sims).InitialValues[j].value.value)]
         \o InitialValuesOfSimulators(Tail(sims))

\* _scenario, _logging_config and _current_sim_path are None; nothing is
\* deployed and no engine has been started.
\* an FMU without a file <name>_OspModelDescription.xml next to it
NoModelDescription ==
    [class |-> "NoneType", VariableGroups |-> [class |-> "NoneType", Generic |-> <<>>, LinearMechanicalPort |-> <<>>]]

InitSettings ==
    /\ scenario = NoObject
    /\ logging_config = NoObject
    /\ current_sim_path = NoPath
    /\ disk = [dirs |-> {<<"fmus">>, <<"tmp">>, <<"sim_temp">>}, files |-> {AllFMUs[i].fmu_file : i \in DOMAIN AllFMUs} \cup {CopyOfFMU.fmu_file, <<"fmus">> \o <<"OspSystemStructure.xml">>, PATH_TO_COSIM}]
    /\ command = <<>>
    /\ run = NoRun
    /\ osp_model_description = NoModelDescription
    /\ handlers = 0

InitFromSystemStructure(file) ==
    /\ InitSettings
    /\ Simulators = file
    /\ components = [i \in DOMAIN file |->
                        Component(file[i].name, FMUByName(file[i].source))]
    /\ initial_values = InitialValuesOfSimulators(file)
    /\ initial_values_is_None = (Len(InitialValuesOfSimulators(file)) = 0)
    /\ functions = <<>>
    /\ Connections = <<>>
    /\ Functions = <<>>
    /\ last = Call("init", "ok", "", "", NoValue)

\* __init__ without arguments: an empty configuration and an empty
\* OspSystemStructure().
InitEmpty ==
    /\ InitSettings
    /\ Simulators = <<>>
    /\ components = <<>>
    /\ initial_values = <<>>
    /\ initial_values_is_None = FALSE
    /\ functions = <<>>
    /\ Connections = <<>>
    /\ Functions = <<>>
    /\ last = Call("init", "ok", "", "", NoValue)

Init ==
    \/ InitEmpty
    \/ \E file \in SystemStructureFiles : InitFromSystemStructure(file)

-----------------------------------------------------------------------------
(* SimulationConfiguration: components *)

get_component_names == [i \in DOMAIN components |-> components[i].name]

HasComponent(name) == \E i \in DOMAIN components : components[i].name = name

\* get_component_by_name, for a name that HasComponent
get_component_by_name(name) ==
    components[FirstIndex(components, LAMBDA c : c.name = name)]

\* name not in self.get_component_names()
NameIsNew_Always(name) == TRUE

NameIsNew(name) == name \notin Range(get_component_names)

add_component(name, fmu) ==
    IF NameIsNew(name)
    THEN /\ components' = Append(components, Component(name, fmu))
         /\ Simulators' = system_structure_add_simulator(Simulators, OspSimulator(name, fmu))
         /\ last' = Call("add_component", "ok", name, "", NoValue)
         /\ UNCHANGED <<initial_values, initial_values_is_None, functions,
                        Connections, Functions>>
    ELSE /\ last' = Call("add_component", "TypeError", name, "", NoValue)
         /\ UNCHANGED <<components, initial_values, initial_values_is_None,
                        functions, Simulators, Connections, Functions>>

\* self.components.index(component)
ComponentIndex_First(component) == 1

ComponentIndex(component) == FirstIndex(components, LAMBDA c : c = component)

delete_component_KeepsSimulator(component_name) ==
    IF component_name \notin Range(get_component_names)
    THEN /\ last' = Call("delete_component", "TypeError", component_name, "", NoValue)
         /\ UNCHANGED <<components, initial_values, initial_values_is_None,
                        functions, Simulators, Connections, Functions>>
    ELSE /\ components' = Pop(components,
                              ComponentIndex(get_component_by_name(component_name)))
         /\ last' = Call("delete_component", "ok", component_name, "", NoValue)
         /\ UNCHANGED <<initial_values, initial_values_is_None, functions,
                        Simulators, Connections, Functions>>

delete_component(component_name) ==
    IF component_name \notin Range(get_component_names)
    THEN /\ last' = Call("delete_component", "TypeError", component_name, "", NoValue)
         /\ UNCHANGED <<components, initial_values, initial_values_is_None,
                        functions, Simulators, Connections, Functions>>
    ELSE /\ components' = Pop(components,
                              ComponentIndex(get_component_by_name(component_name)))
         /\ Simulators' = system_structure_delete_simulator(Simulators, component_name)
         /\ last' = Call("delete_component", "ok", component_name, "", NoValue)
         /\ UNCHANGED <<initial_values, initial_values_is_None, functions,
                        Connections, Functions>>

-----------------------------------------------------------------------------
(* SimulationConfiguration: initial values *)

OspInitialValue(variable, value) == [variable |-> variable, value |-> value]

HasInitialValue(component, variable) ==
    /\ ~initial_values_is_None
    /\ \E i \in DOMAIN initial_values :
           /\ initial_values[i].component = component
           /\ initial_values[i].variable = variable

\* get_initial_value_by_variable, for a key that HasInitialValue; for any
\* other key, and when initial_values is None, the method raises TypeError.
get_initial_value_by_variable(component, variable) ==
    initial_values[FirstIndex(initial_values,
                              LAMBDA iv : iv.component = component /\ iv.variable = variable)]

\* self.initial_values.pop(self.initial_values.index(init_value))
PopInitialValue(init_value) ==
    Pop(initial_values, FirstIndex(initial_values, LAMBDA iv : iv = init_value))

\* variable in component.fmu.get_parameter_names() or
\* variable in component.fmu.get_input_names()
IsParameterOrInput_AnyVariable(fmu, variable) ==
    \/ variable \in Range(get_parameter_names(fmu))
    \/ variable \in Range(get_input_names(fmu))
    \/ variable \in Range(get_output_names(fmu))

IsParameterOrInput(fmu, variable) ==
    \/ variable \in Range(get_parameter_names(fmu))
    \/ variable \in Range(get_input_names(fmu))

add_update_initial_value(component_name, variable, value, type_value) ==
    LET raise(error) ==
            /\ last' = Call("add_update_initial_value", error, component_name, variable,
                            NoValue)
            /\ UNCHANGED <<components, initial_values, initial_values_is_None,
                           functions, Simulators, Connections, Functions>>
    IN
    IF ~HasComponent(component_name)
    THEN raise("TypeError")
    ELSE IF ~IsParameterOrInput(get_component_by_name(component_name).fmu, variable)
    THEN raise("TypeError")
    ELSE IF initial_values_is_None
    THEN \* the lookup's TypeError is caught, then None has no append
         /\ last' = [Call("add_update_initial_value", "AttributeError", component_name,
                          variable, value) EXCEPT !.typ = type_value]
         /\ UNCHANGED <<components, initial_values, initial_values_is_None,
                        functions, Simulators, Connections, Functions>>
    ELSE LET init_value == InitialValues(component_name, variable, value)
             kept == IF HasInitialValue(component_name, variable)
                     THEN PopInitialValue(
                              get_initial_value_by_variable(component_name, variable))
                     ELSE initial_values
         IN  /\ initial_values' = Append(kept, init_value)
             /\ IF CastRaises(value, type_value)
                THEN /\ last' = [Call("add_update_initial_value", "ValueError",
                                      component_name, variable, value)
                                 EXCEPT !.typ = type_value]
                     /\ UNCHANGED Simulators
                ELSE /\ Simulators' = system_structure_add_update_initial_value(
                                         Simulators, component_name,
                                         OspInitialValue(variable,
                                             convert_value_to_osp_type(value, type_value)))
                     /\ last' = [Call("add_update_initial_value", "ok",
                                      component_name, variable, value)
                                 EXCEPT !.typ = type_value]
             /\ UNCHANGED <<components, initial_values_is_None, functions,
                            Connections, Functions>>

\* self.initial_values.append(init_value) after a refused deletion
PutBack_Forgotten(list, init_value) == list

PutBack(list, init_value) == Append(list, init_value)

delete_initial_value(component, variable) ==
    IF ~HasInitialValue(component, variable)
    THEN /\ last' = Call("delete_initial_value", "TypeError", component, variable,
                         NoValue)
         /\ UNCHANGED <<components, initial_values, initial_values_is_None,
                        functions, Simulators, Connections, Functions>>
    ELSE LET init_value == get_initial_value_by_variable(component, variable)
         IN  IF system_structure_has_initial_value(Simulators, component, variable)
             THEN /\ initial_values' = PopInitialValue(init_value)
                  /\ Simulators' = system_structure_delete_initial_value(
                                       Simulators, component, variable)
                  /\ last' = Call("delete_initial_value", "ok", component, variable,
                                  NoValue)
                  /\ UNCHANGED <<components, initial_values_is_None, functions,
                                 Connections, Functions>>
             ELSE /\ initial_values' = PutBack(PopInitialValue(init_value), init_value)
                  /\ last' = Call("delete_initial_value", "TypeError", component, variable,
                                  NoValue)
                  /\ UNCHANGED <<components, initial_values_is_None, functions,
                                 Simulators, Connections, Functions>>

-----------------------------------------------------------------------------
(* OspSystemStructure (pyOSPParser): connections and functions *)

\* An endpoint names a variable (or variable group) of a simulator, or a
\* signal (or signal group) of a function; owner is the simulator or function.
OspVariableEndpoint(simulator, name) ==
    [endpoint |-> "Variable", owner |-> simulator, name |-> name]

\* The connection add_connection builds; its class follows the table of the
\* docstring of add_connection.
OspConnection(source, target, group) ==
    [type |-> IF source.endpoint = "Variable" /\ target.endpoint = "Variable"
              THEN IF group THEN "VariableGroupConnection" ELSE "VariableConnection"
              ELSE IF group THEN "SignalGroupConnection" ELSE "SignalConnection",
     source |-> source, target |-> target]

\* add_connection: the connection is appended to the list of its class.
system_structure_add_connection(conns, source, target, group) ==
    Append(conns, OspConnection(source, target, group))

\* a connection has the two endpoints, given in either order
HasEndpoints(connection, endpoint1, endpoint2) ==
    \/ connection.source = endpoint1 /\ connection.target = endpoint2
    \/ connection.source = endpoint2 /\ connection.target = endpoint1

\* delete_connection: the connection having the two endpoints leaves its
\* list; a list left empty, and Connections once all lists are empty, is None
\* (here: the empty sequence).
system_structure_delete_connection(conns, endpoint1, endpoint2) ==
    Pop(conns, FirstIndex(conns, LAMBDA c : HasEndpoints(c, endpoint1, endpoint2)))

\* get_all_endpoints_for_component raises TypeError when there are no
\* connections; otherwise it lists the variable endpoints on the simulator
\* that the variable and signal connections use.
system_structure_get_all_endpoints_for_component(conns, component_name) ==
    LET plain == SelectSeq(conns, LAMBDA c : c.type \in {"VariableConnection",
                                                         "SignalConnection"})
        ends == [i \in 1..(2 * Len(plain)) |->
                    IF i % 2 = 1 THEN plain[(i + 1) \div 2].source
                    ELSE plain[i \div 2].target]
    IN  SelectSeq(ends, LAMBDA e : e.endpoint = "Variable" /\ e.owner = component_name)

\* add_function: the function is appended to the functions of the structure.
system_structure_add_function(funcs, function_name, function_type) ==
    Append(funcs, [name |-> function_name, type |-> function_type])

-----------------------------------------------------------------------------
(* SimulationConfiguration: connections *)

\* get_variable_endpoints_of_component_for_variable_connection with
\* causality = Causality.input, for a component of the configuration
InputEndpointsOfComponent(component_name) ==
    IF Connections = <<>>
    THEN <<>>
    ELSE SelectSeq(
            system_structure_get_all_endpoints_for_component(Connections, component_name),
            LAMBDA e : e.name \in Range(get_input_names(get_component_by_name(e.owner).fmu)))

\* history kept in last: follows says that the call comes right after a
\* successful call of op on the same two endpoints, before holds the
\* connections a successful add_connection found (and the
\* current_simulation_path a deploy_files_for_simulation found)
Follows(op, endpoint1, endpoint2) ==
    /\ last.op = op
    /\ last.res = "ok"
    /\ HasEndpoints(last, endpoint1, endpoint2)

\* the test of validate_variable_endpoint on an input that already has an
\* endpoint
TargetIsTaken_Never(endpoint) == FALSE

TargetIsTaken(endpoint) ==
    endpoint.name \in {e.name : e \in Range(InputEndpointsOfComponent(endpoint.owner))}

\* the variable names validate_variable_endpoint compares the endpoint with
CausalityNames_Inputs(fmu, causality) == get_input_names(fmu)

CausalityNames(fmu, causality) ==
    IF causality = "input" THEN get_input_names(fmu) ELSE get_output_names(fmu)

\* validate_variable_endpoint returns True; otherwise it raises TypeError
validate_variable_endpoint(endpoint, causality) ==
    /\ HasComponent(endpoint.owner)
    /\ endpoint.name \in Range(CausalityNames(get_component_by_name(endpoint.owner).fmu,
                                              causality))
    /\ causality = "input" => ~TargetIsTaken(endpoint)

add_connection(source, target, group) ==
    LET call(res) == [Call("add_connection", res, "", "", NoValue)
                        EXCEPT !.source = source, !.target = target, !.group = group]
    IN
    IF /\ source.endpoint = "Variable" /\ ~group
       /\ ~validate_variable_endpoint(source, "output")
    THEN /\ last' = call("TypeError")
         /\ UNCHANGED <<components, initial_values, initial_values_is_None,
                        functions, Simulators, Connections, Functions>>
    ELSE IF /\ target.endpoint = "Variable" /\ ~group
            /\ ~validate_variable_endpoint(target, "input")
    THEN /\ last' = call("TypeError")
         /\ UNCHANGED <<components, initial_values, initial_values_is_None,
                        functions, Simulators, Connections, Functions>>
    ELSE /\ Connections' = system_structure_add_connection(Connections, source, target, group)
         /\ last' = [call("ok") EXCEPT !.before = Connections]
         /\ UNCHANGED <<components, initial_values, initial_values_is_None,
                        functions, Simulators, Functions>>

\* a delete_connection that leaves the connection in the structure
delete_connection_KeepsConnection(endpoint1, endpoint2) ==
    /\ last' = [Call("delete_connection", "ok", "", "", NoValue)
                  EXCEPT !.source = endpoint1, !.target = endpoint2,
                         !.follows = Follows("add_connection", endpoint1, endpoint2)]
    /\ UNCHANGED <<components, initial_values, initial_values_is_None,
                   functions, Simulators, Connections, Functions>>

delete_connection(endpoint1, endpoint2) ==
    /\ Connections' = system_structure_delete_connection(Connections, endpoint1, endpoint2)
    /\ last' = [Call("delete_connection", "ok", "", "", NoValue)
                  EXCEPT !.source = endpoint1, !.target = endpoint2,
                         !.follows = Follows("add_connection", endpoint1, endpoint2)]
    /\ UNCHANGED <<components, initial_values, initial_values_is_None,
                   functions, Simulators, Functions>>

-----------------------------------------------------------------------------
(* SimulationConfiguration: functions *)

Function(type, name, factor, offset, inputCount, dimension) ==
    [type |-> type, name |-> name, factor |-> factor, offset |-> offset,
     inputCount |-> inputCount, dimension |-> dimension]

\* kwargs.get(key, None): a keyword that is not given reads as None (NoValue)
add_function(function_name, function_type, kwargs) ==
    LET raise ==
            /\ last' = Call("add_function", "TypeError", function_name, function_type,
                            NoValue)
            /\ UNCHANGED <<components, initial_values, initial_values_is_None,
                           functions, Simulators, Connections, Functions>>
        add(function) ==
            /\ functions' = Append(functions, function)
            /\ Functions' = system_structure_add_function(Functions, function_name,
                                                          function_type)
            /\ last' = Call("add_function", "ok", function_name, function_type, NoValue)
            /\ UNCHANGED <<components, initial_values, initial_values_is_None,
                           Simulators, Connections>>
    IN
    CASE function_type = "LinearTransformation" ->
            IF kwargs.factor = NoValue \/ kwargs.offset = NoValue
            THEN raise
            ELSE add(Function(function_type, function_name, kwargs.factor, kwargs.offset,
                              NoValue, NoValue))
      [] function_type = "Sum" ->
            IF kwargs.inputCount = NoValue
            THEN raise
            ELSE add(Function(function_type, function_name, NoValue, NoValue,
                              kwargs.inputCount, NoValue))
      [] function_type = "VectorSum" ->
            IF kwargs.inputCount = NoValue \/ kwargs.dimension = NoValue
            THEN raise
            ELSE add(Function(function_type, function_name, NoValue, NoValue,
                              kwargs.inputCount, kwargs.dimension))

-----------------------------------------------------------------------------
(* SimulationConfiguration: construction with arguments, scenario and
   logging configuration *)

\* an isinstance that takes every value for an instance of the class
isinstance_Any(value, class) == TRUE

isinstance(value, class) == value.class = class

\* __init__(system_structure=file, path_to_fmu=...): the assertion on
\* path_to_fmu comes first; a configuration that fails to construct leaves
\* the one at hand as it is.  last.typ is the type of path_to_fmu.
Construct(file, path_to_fmu_given) ==
    IF ~path_to_fmu_given
    THEN /\ last' = [Call("__init__", "AssertionError", "", "", NoValue)
                       EXCEPT !.typ = "NoneType"]
         /\ UNCHANGED <<configuration, settings, environment>>
    ELSE /\ Simulators' = file
         /\ components' = [i \in DOMAIN file |->
                              Component(file[i].name, FMUByName(file[i].source))]
         /\ initial_values' = InitialValuesOfSimulators(file)
         /\ initial_values_is_None' = (Len(InitialValuesOfSimulators(file)) = 0)
         /\ functions' = <<>>
         /\ Connections' = <<>>
         /\ Functions' = <<>>
         /\ scenario' = NoObject
         /\ logging_config' = NoObject
         /\ current_sim_path' = NoPath
         /\ last' = [Call("__init__", "ok", "", "", NoValue) EXCEPT !.typ = "str"]
         /\ UNCHANGED <<osp_model_description, disk, command, run, handlers>>

\* __init__(components=..., initial_values=...) without a system structure:
\* the system structure is a new OspSystemStructure(), and the two lists are
\* taken as the attributes when they are not empty
ConstructFromLists(components_given, initial_values_given) ==
    /\ Simulators' = <<>>
    /\ components' = components_given
    /\ initial_values' = initial_values_given
    /\ initial_values_is_None' = FALSE
    /\ functions' = <<>>
    /\ Connections' = <<>>
    /\ Functions' = <<>>
    /\ scenario' = NoObject
    /\ logging_config' = NoObject
    /\ current_sim_path' = NoPath
    /\ last' = [Call("__init__", "ok", "", "", NoValue) EXCEPT !.typ = "list"]
    /\ UNCHANGED <<osp_model_description, disk, command, run, handlers>>

\* the setter of scenario
scenario_setter(value) ==
    IF ~isinstance(value, "OSPScenario")
    THEN /\ last' = [Call("scenario", "AssertionError", "", "", NoValue)
                       EXCEPT !.typ = value.class]
         /\ UNCHANGED <<configuration, settings, environment>>
    ELSE /\ scenario' = value
         /\ last' = [Call("scenario", "ok", "", "", NoValue) EXCEPT !.typ = value.class]
         /\ UNCHANGED <<configuration, logging_config, osp_model_description, environment>>

\* the setter of logging_config
logging_config_setter(value) ==
    IF ~isinstance(value, "OspLoggingConfiguration")
    THEN /\ last' = [Call("logging_config", "AssertionError", "", "", NoValue)
                       EXCEPT !.typ = value.class]
         /\ UNCHANGED <<configuration, settings, environment>>
    ELSE /\ logging_config' = value
         /\ last' = [Call("logging_config", "ok", "", "", NoValue)
                       EXCEPT !.typ = value.class]
         /\ UNCHANGED <<configuration, scenario, osp_model_description, environment>>

\* set_scenario(name, end): self.scenario = OSPScenario(...)
set_scenario ==
    /\ scenario' = Object("OSPScenario")
    /\ last' = Call("set_scenario", "ok", "", "", NoValue)
    /\ UNCHANGED <<configuration, logging_config, osp_model_description, environment>>

-----------------------------------------------------------------------------
(* OSPScenario (pyOSPParser): events *)

\* an argument that is None matches every event
EventMatches(event, time, component, variable) ==
    /\ time = NoValue \/ event.time = time
    /\ component = "None" \/ event.model = component
    /\ variable = "None" \/ event.variable = variable

\* update_event: the event found by time, component and variable takes the
\* action and the value that are given
scenario_update_event(events, time, component, variable, action, value) ==
    [i \in DOMAIN events |->
        IF EventMatches(events[i], time, component, variable)
        THEN [events[i] EXCEPT
                !.action = IF action = "None" THEN @ ELSE action,
                !.value = IF value = NoValue THEN @ ELSE value]
        ELSE events[i]]

\* delete_events: the events that match the arguments leave the scenario
scenario_delete_events(events, time, component, variable) ==
    SelectSeq(events, LAMBDA e : ~EventMatches(e, time, component, variable))

-----------------------------------------------------------------------------
(* SimulationConfiguration: events *)

\* the variables add_event accepts
IsInputOrParameter_AnyVariable(fmu, variable) ==
    variable \in Range(get_input_names(fmu)) \cup Range(get_parameter_names(fmu))
                 \cup Range(get_output_names(fmu))

IsInputOrParameter(fmu, variable) ==
    variable \in Range(get_input_names(fmu)) \cup Range(get_parameter_names(fmu))

add_event(time, component, variable, action, value) ==
    LET raise ==
            /\ last' = Call("add_event", "TypeError", component, variable, NoValue)
            /\ UNCHANGED <<configuration, settings, environment>>
    IN
    IF ~isinstance(scenario, "OSPScenario") THEN raise
    ELSE IF component \notin Range(get_component_names) THEN raise
    ELSE IF ~IsInputOrParameter(get_component_by_name(component).fmu, variable) THEN raise
    ELSE /\ scenario' = [scenario EXCEPT
                           !.events = Append(
                               @, [time |-> time, model |-> component, variable |-> variable,
                                   action |-> action, value |-> value])]
         /\ last' = Call("add_event", "ok", component, variable, value)
         /\ UNCHANGED <<configuration, logging_config, osp_model_description, environment>>

update_event(time, component, variable, action, value) ==
    IF ~isinstance(scenario, "OSPScenario")
    THEN /\ last' = Call("update_event", "TypeError", component, variable, NoValue)
         /\ UNCHANGED <<configuration, settings, environment>>
    ELSE /\ scenario' = [scenario EXCEPT
                           !.events = scenario_update_event(@, time, component, variable,
                                                            action, value)]
         /\ last' = Call("update_event", "ok", component, variable, value)
         /\ UNCHANGED <<configuration, logging_config, osp_model_description, environment>>

delete_events(time, component, variable) ==
    IF ~isinstance(scenario, "OSPScenario")
    THEN /\ last' = Call("delete_events", "TypeError", component, variable, NoValue)
         /\ UNCHANGED <<configuration, settings, environment>>
    ELSE /\ scenario' = [scenario EXCEPT
                           !.events = scenario_delete_events(@, time, component, variable)]
         /\ last' = Call("delete_events", "ok", component, variable, NoValue)
         /\ UNCHANGED <<configuration, logging_config, osp_model_description, environment>>

-----------------------------------------------------------------------------
(* Strings and paths: str methods and os.path as get_fmu_rel_path and
   deploy_files_for_simulation use them.  A string is the sequence of its
   characters. *)

os_sep == "/"

endswith(string, suffix) == Len(string) > 0 /\ string[Len(string)] = suffix

\* str.rfind: the highest index of the character, counted from 0; -1 if absent
rfind(string, char) ==
    IF \E i \in DOMAIN string : string[i] = char
    THEN (CHOOSE i \in DOMAIN string :
            /\ string[i] = char
            /\ \A j \in DOMAIN string : string[j] = char => j <= i) - 1
    ELSE -1

\* string[:stop], string[start:] for indices counted from 0
SliceTo(string, stop) ==
    IF stop >= 0 THEN SubSeq(string, 1, stop)
    ELSE SubSeq(string, 1, Len(string) + stop)

SliceFrom(string, start) == SubSeq(string, start + 1, Len(string))

replace(string, old, new) ==
    [i \in DOMAIN string |-> IF string[i] = old THEN new ELSE string[i]]

count(string, char) == Cardinality({i \in DOMAIN string : string[i] = char})

\* '../' * depth
RECURSIVE Repeat(_, _)
Repeat(string, times) ==
    IF times <= 0 THEN <<>> ELSE string \o Repeat(string, times - 1)

\* the length test that chooses between the two answers
DeployIsNotShorter_Always(path_to_deploy, path_to_sys_struct) == TRUE

DeployIsNotShorter(path_to_deploy, path_to_sys_struct) ==
    Len(path_to_deploy) >= Len(path_to_sys_struct)

get_fmu_rel_path(path_to_deploy, path_to_sys_struct) ==
    LET deploy == IF endswith(path_to_deploy, os_sep)
                  THEN SliceTo(path_to_deploy, rfind(path_to_deploy, os_sep))
                  ELSE path_to_deploy
        sys_struct == IF endswith(path_to_sys_struct, os_sep)
                      THEN SliceTo(path_to_sys_struct, rfind(path_to_sys_struct, os_sep))
                      ELSE path_to_sys_struct
    IN  IF DeployIsNotShorter(deploy, sys_struct)
        THEN LET rel_path ==
                     SliceFrom(replace(SliceFrom(deploy, Len(sys_struct)), os_sep, "/"), 1)
             IN  IF Len(rel_path) > 0 THEN rel_path \o <<"/">> ELSE <<>>
        ELSE LET rel_path == SliceFrom(sys_struct, Len(deploy))
                 depth == count(rel_path, os_sep)
             IN  Repeat(<<".", ".", "/">>, depth)

\* The string of a path given by its components: they are joined by os.sep.
\* A component counts as one character of the string.
RECURSIVE PathString(_)
PathString(path) ==
    IF path = <<>> THEN <<>>
    ELSE IF Len(path) = 1 THEN <<path[1]>>
    ELSE PathString(dirname(path)) \o <<os_sep, basename(path)>>

-----------------------------------------------------------------------------
(* The file system: os.path.isdir, os.path.isfile, shutil.rmtree,
   shutil.copyfile, os.mkdir, os.makedirs, open(..., 'wt') *)

isdir(d, path) == path \in d.dirs

isfile(d, path) == path \in d.files

IsPrefix(prefix, path) ==
    Len(prefix) <= Len(path) /\ SubSeq(path, 1, Len(prefix)) = prefix

rmtree(d, path) ==
    [dirs |-> {p \in d.dirs : ~IsPrefix(path, p)},
     files |-> {p \in d.files : ~IsPrefix(path, p)}]

WriteFile(d, path) == [d EXCEPT !.files = @ \cup {path}]

mkdir(d, path) == [d EXCEPT !.dirs = @ \cup {path}]

makedirs(d, path) ==
    [d EXCEPT !.dirs = @ \cup {SubSeq(path, 1, n) : n \in 1..Len(path)}]

-----------------------------------------------------------------------------
(* SimulationConfiguration: deployment *)

\* prepare_temp_dir_for_simulation: pycosim_tmp/sim_<uuid4> under the
\* directory of temporary files is made unless it is there
TempDirOf(uuid) == <<"tmp">> \o <<"pycosim_tmp", uuid>>

prepare_temp_dir_for_simulation(uuid) ==
    /\ disk' = IF ~isdir(disk, TempDirOf(uuid)) THEN makedirs(disk, TempDirOf(uuid)) ELSE disk
    /\ last' = [Call("prepare_temp_dir_for_simulation", "ok", "", "", NoValue)
                  EXCEPT !.returned = TempDirOf(uuid)]
    /\ UNCHANGED <<configuration, settings, handlers, current_sim_path, command, run>>

\* the fmus to copy: the FMU of the first component of every FMU name
FmusToDeploy ==
    {components[i].fmu : i \in
        {i \in DOMAIN components :
            \A j \in 1..(i - 1) : components[j].fmu.name # components[i].fmu.name}}

\* the state of the file system after the statements of
\* deploy_files_for_simulation, up to the one that raises
DiskCleared_Never == disk

DiskCleared ==
    IF current_sim_path # NoPath /\ isdir(disk, current_sim_path)
    THEN rmtree(disk, current_sim_path)
    ELSE disk

DiskWithFmus(path_to_deploy) ==
    [DiskCleared EXCEPT !.files =
        @ \cup {path_to_deploy \o <<basename(fmu.fmu_file)>> : fmu \in FmusToDeploy}]

\* how deploy_files_for_simulation ends: the copy of an FMU or os.mkdir
\* raises FileNotFoundError, or the call returns
DeployOutcome(path_to_deploy, rel_path_to_system_structure) ==
    IF FmusToDeploy # {} /\ ~(isdir(DiskCleared, path_to_deploy) /\ \A fmu \in FmusToDeploy : isfile(DiskCleared, fmu.fmu_file))
    THEN "copyfile"
    ELSE IF /\ ~isdir(DiskWithFmus(path_to_deploy),
                      path_to_deploy \o rel_path_to_system_structure)
            \* os.mkdir wants the parent directory to exist
            /\ ~(/\ isdir(DiskWithFmus(path_to_deploy),
                          dirname(path_to_deploy \o rel_path_to_system_structure))
                 /\ ~isfile(DiskWithFmus(path_to_deploy),
                            path_to_deploy \o rel_path_to_system_structure))
    THEN "mkdir"
    ELSE "ok"

\* what deploy_files_for_simulation does to the configuration and the files
DeployFilesForSimulation(path_to_deploy, rel_path_to_system_structure) ==
    LET path_to_sys_struct == path_to_deploy \o rel_path_to_system_structure
        outcome == DeployOutcome(path_to_deploy, rel_path_to_system_structure)
    IN
    /\ current_sim_path' = path_to_deploy
    /\ UNCHANGED <<components, initial_values, initial_values_is_None, functions,
                   Connections, Functions, settings, handlers>>
    /\ disk' = CASE outcome = "copyfile" -> DiskCleared
                 [] outcome = "mkdir" -> DiskWithFmus(path_to_deploy)
                 [] outcome = "ok" ->
                        WriteFile(
                            IF isdir(DiskWithFmus(path_to_deploy), path_to_sys_struct)
                            THEN DiskWithFmus(path_to_deploy)
                            ELSE mkdir(DiskWithFmus(path_to_deploy), path_to_sys_struct),
                            path_to_sys_struct \o <<"OspSystemStructure.xml">>)
    /\ Simulators' =
          IF outcome = "ok"
          THEN [i \in DOMAIN Simulators |->
                  [Simulators[i] EXCEPT !.fmu_rel_path =
                      get_fmu_rel_path(
                          PathString(path_to_deploy),
                          PathString(path_to_deploy) \o <<os_sep>>
                              \o PathString(rel_path_to_system_structure))]]
          ELSE Simulators

deploy_files_for_simulation(path_to_deploy, rel_path_to_system_structure) ==
    LET call(res) == [Call("deploy_files_for_simulation", res, "", "", NoValue)
                        EXCEPT !.args = <<path_to_deploy, rel_path_to_system_structure>>,
                               !.before = current_sim_path]
    IN
    /\ DeployFilesForSimulation(path_to_deploy, rel_path_to_system_structure)
    /\ UNCHANGED <<command, run>>
    /\ last' =
          IF DeployOutcome(path_to_deploy, rel_path_to_system_structure) = "ok"
          THEN [call("ok") EXCEPT
                  !.returned = path_to_deploy \o rel_path_to_system_structure]
          ELSE call("FileNotFoundError")

-----------------------------------------------------------------------------
(* osp_command_line_interface: command lines *)

\* "if duration:" and "if step_size:" take None and 0 as false
Truthy(value) == value # NoValue /\ value.v # 0

\* One argument of a command line: a positional argument has no flag; an
\* option is '<flag>=<value>' or '<flag><value>'; an initial value is
\* '<key>=<value>'.
Positional(value) == [flag |-> "", value |-> value]

Option(flag, value) == [flag |-> flag, value |-> value]

\* '%s' and '%f' of a number
FormatNumber(value) == <<ToString(value.v)>>

\* output_file_path is the path after its default has been filled in
run_single_fmu_args(path_to_fmu, values, output_file_path, duration, step_size) ==
    <<Positional(PATH_TO_COSIM), Positional(<<"run-single">>), Positional(path_to_fmu)>>
    \o [i \in DOMAIN values |-> Option(values[i].key, FormatNumber(values[i].value))]
    \o <<Option("--output-file", output_file_path)>>
    \o (IF Truthy(duration) THEN <<Option("-d", FormatNumber(duration))>> ELSE <<>>)
    \o (IF Truthy(step_size) THEN <<Option("-s", FormatNumber(step_size))>> ELSE <<>>)

\* scenario.get_file_name() of pyOSPParser
ScenarioFileName == "scenario.json"

\* The logging configuration is written to LogConfig.xml in the directory of
\* the system structure, where the engine looks for it: no argument names it.
run_cosimulation_args(path_to_system_structure, output_file_path, sc, duration, level) ==
    <<Positional(PATH_TO_COSIM), Positional(<<"run">>),
      Positional(path_to_system_structure)>>
    \o <<Option("--output-dir", output_file_path)>>
    \o (IF sc # NoObject
        THEN <<Option("--scenario", path_to_system_structure \o <<ScenarioFileName>>)>>
        ELSE <<>>)
    \o (IF Truthy(duration) THEN <<Option("--duration", FormatNumber(duration))>> ELSE <<>>)
    \o <<Option("--log-level", <<level>>)>>

\* the output is deleted when no place for it was named
delete_output_Never(output_file_path) == FALSE

delete_output(output_file_path) == output_file_path = NoPath

-----------------------------------------------------------------------------
(* osp_command_line_interface: the engine *)

\* the name of a CSV file the engine writes for a simulator:
\* <simulator>_<date>_<time>_<fraction>.csv
CsvFileName == "my_wheel_1_2_3.csv"

\* run_cli: start the engine with the arguments and read its standard output
\* and standard error
run_cli ==
    /\ run.pc = "invoke"
    /\ \E outcome \in {"ok", "failed"} :
          LET \* the files a successful engine writes: run-single writes the
              \* output file, run writes CSV files into the output directory
              output ==
                  CASE run.mode = "run-single" ->
                          {run.args[CHOOSE i \in DOMAIN run.args : run.args[i].flag = "--output-file"].value}
                    [] run.mode = "run" ->
                          {run.args[CHOOSE i \in DOMAIN run.args : run.args[i].flag = "--output-dir"].value \o <<CsvFileName>>}
              written == IF outcome = "ok" THEN output ELSE {}
          IN
          /\ command' = run.args
          /\ disk' = [disk EXCEPT !.files = @ \cup written]
          /\ run' = [run EXCEPT !.pc = "finish", !.written = written,
                                !.error = IF outcome = "ok" THEN "" ELSE "error",
                                !.invoked = @ + 1,
                                !.steps = Append(@, "engine")]
    /\ UNCHANGED <<configuration, settings, handlers, current_sim_path, last>>

IsParameter_ByCausality(variable) == variable.causality = "parameter"

\* the first test of the loop of parse_model_variables
IsParameter(variable) ==
    variable.variability = "fixed" \/ variable.causality = "parameter"

\* parse_model_variables: the variables of the engine's inspect, one after the
\* other, appended to one of four lists
RECURSIVE parse_model_variables(_)
parse_model_variables(variables) ==
    IF variables = <<>>
    THEN [parameters |-> <<>>, inputs |-> <<>>, outputs |-> <<>>, others |-> <<>>]
    ELSE LET variable == variables[Len(variables)]
             parsed == parse_model_variables(SubSeq(variables, 1, Len(variables) - 1))
         IN  IF IsParameter(variable)
             THEN [parsed EXCEPT !.parameters = Append(@, variable)]
             ELSE IF variable.causality = "input"
             THEN [parsed EXCEPT !.inputs = Append(@, variable)]
             ELSE IF variable.causality = "output"
             THEN [parsed EXCEPT !.outputs = Append(@, variable)]
             ELSE [parsed EXCEPT !.others = Append(@, variable)]

get_model_description(file_path_fmu) ==
    /\ run.pc = "idle"
    /\ UNCHANGED <<configuration, settings, handlers, current_sim_path, disk>>
    /\ IF ~isfile(disk, PATH_TO_COSIM) \/ ~isfile(disk, file_path_fmu)
       THEN /\ last' = [Call("get_model_description", "AssertionError", "", "", NoValue)
                          EXCEPT !.args = <<file_path_fmu>>]
            /\ UNCHANGED <<command, run>>
       ELSE /\ command' = <<Positional(PATH_TO_COSIM), Positional(<<"inspect">>),
                          Positional(file_path_fmu)>>
            /\ run' = [NoRun EXCEPT !.caller = "get_model_description",
                                    !.mode = "inspect", !.path = file_path_fmu,
                                    !.args = <<Positional(PATH_TO_COSIM),
                                               Positional(<<"inspect">>),
                                               Positional(file_path_fmu)>>,
                                    !.invoked = 1, !.steps = <<"engine">>]
            /\ last' = [Call("get_model_description", "ok", "", "", NoValue)
                          EXCEPT !.args = <<file_path_fmu>>]

-----------------------------------------------------------------------------
(* osp_command_line_interface: run_single_fmu *)

\* run_single_fmu up to the start of the engine
run_single_fmu_begin(path_to_fmu, values, output_file_path, duration, step_size) ==
    LET out == IF output_file_path = NoPath THEN <<"model-output.csv">> ELSE output_file_path
    IN
    /\ run.pc = "idle"
    /\ UNCHANGED <<configuration, settings, handlers, current_sim_path, disk, command>>
    /\ IF ~isfile(disk, PATH_TO_COSIM) \/ ~isfile(disk, path_to_fmu)
       THEN /\ run' = [NoRun EXCEPT !.caller = "run_single_fmu", !.path = path_to_fmu]
            /\ last' = Call("run_single_fmu", "AssertionError", "", "", NoValue)
       ELSE /\ run' = [NoRun EXCEPT
                         !.pc = "invoke", !.caller = "run_single_fmu",
                         !.mode = "run-single", !.path = path_to_fmu,
                         !.output_given = (output_file_path # NoPath),
                         !.output_file_path = out,
                         !.delete_output = delete_output(output_file_path),
                         !.duration = duration, !.step_size = step_size,
                         !.args = run_single_fmu_args(path_to_fmu, values, out,
                                                      duration, step_size)]
            /\ UNCHANGED last

\* run_single_fmu after the engine: read the output file, remove it when no
\* output file was named
run_single_fmu_end ==
    /\ run.pc = "finish"
    /\ run.caller = "run_single_fmu"
    /\ UNCHANGED <<configuration, settings, handlers, current_sim_path, command>>
    /\ run' = [run EXCEPT !.pc = "idle"]
    /\ IF ~isfile(disk, run.output_file_path)
       THEN /\ last' = Call("run_single_fmu", "FileNotFoundError", "", "", NoValue)
            /\ UNCHANGED disk
       ELSE /\ disk' = IF run.delete_output
                       THEN [disk EXCEPT !.files = @ \ {run.output_file_path}]
                       ELSE disk
            /\ last' = [Call("run_single_fmu", "ok", "", "", NoValue)
                          EXCEPT !.returned = <<"result", "log">>]

-----------------------------------------------------------------------------
(* osp_command_line_interface: run_cosimulation *)

deploy_output_config_NotWritten(d, path) == d

deploy_output_config(d, path) == WriteFile(d, path \o <<"LogConfig.xml">>)

deploy_scenario(d, path) == WriteFile(d, path \o <<ScenarioFileName>>)

\* the key of a CSV file in the result: its name without the last three
\* fields that an underscore begins
simulator_name(file) ==
    LET cut(name) == SliceTo(name, rfind(name, "_"))
    IN  cut(cut(cut(file)))

\* clean_header: header[0:header.rindex('[') - 1] for a header with a bracket
clean_header(header) ==
    IF "[" \in Range(header)
    THEN SliceTo(header, rfind(header, "[") - 1)
    ELSE header

\* run_cosimulation up to the start of the engine, in the frame of its caller
run_cosimulation_begin(frame, caller, path_to_system_structure, lc, output_file_path, sc, duration, logging_level, logging_stream) ==
    LET found ==
            /\ isfile(disk, PATH_TO_COSIM)
            /\ isdir(disk, path_to_system_structure)
            /\ isfile(disk, path_to_system_structure \o <<"OspSystemStructure.xml">>)
        with_logging ==
            IF lc # NoObject
            THEN deploy_output_config(disk, path_to_system_structure)
            ELSE disk
        out == IF output_file_path = NoPath
               THEN path_to_system_structure
               ELSE output_file_path
        with_scenario ==
            IF sc # NoObject
            THEN deploy_scenario(with_logging, path_to_system_structure)
            ELSE with_logging
        raised == [frame EXCEPT !.pc = "idle", !.caller = caller,
                                !.path = path_to_system_structure,
                                !.logging_stream = logging_stream,
                                !.handlers = handlers]
    IN
    /\ UNCHANGED <<configuration, settings, current_sim_path, command>>
    \* logger.addHandler(log_handler) comes before the assertions
    /\ handlers' = IF logging_stream THEN handlers + 1 ELSE handlers
    /\ IF ~found
       THEN /\ UNCHANGED disk
            /\ run' = raised
            /\ last' = Call(caller, "AssertionError", "", "", NoValue)
       ELSE IF output_file_path # NoPath /\ ~isdir(with_logging, output_file_path)
       THEN /\ disk' = with_logging
            /\ run' = raised
            /\ last' = Call(caller, "AssertionError", "", "", NoValue)
       ELSE /\ disk' = with_scenario
            /\ run' = [frame EXCEPT
                         !.pc = "invoke", !.caller = caller, !.mode = "run",
                         !.path = path_to_system_structure,
                         !.logging_config = lc,
                         !.output_given = (output_file_path # NoPath),
                         !.output_file_path = out,
                         !.delete_output = delete_output(output_file_path),
                         !.scenario = sc, !.duration = duration,
                         !.logging_level = logging_level,
                         !.logging_stream = logging_stream,
                         !.handlers = handlers,
                         !.args = run_cosimulation_args(path_to_system_structure, out,
                                                        sc, duration, logging_level),
                         !.steps = @ \o (IF lc # NoObject THEN <<"logging_config">> ELSE <<>>)
                                     \o (IF sc # NoObject THEN <<"scenario">> ELSE <<>>)]
            /\ UNCHANGED last

\* run_cosimulation after the engine: read the CSV files, remove them when no
\* output directory was named, return the result and the log; run_simulation
\* then unpacks this and returns a SimulationOutput
run_cosimulation_end ==
    LET \* the characters of the name of a CSV file of the engine, and the
        \* headers of its columns
        file_name == <<"m", "y", "_", "w", "h", "e", "e", "l", "_", "1", "_", "2", "_", "3", ".", "c", "s", "v">>
        columns == << <<"T", "i", "m", "e">>, <<"y", " ", "[", "1", " ", "r", "e", "a", "l", "]">> >>
        \* the CSV files of the output directory that the engine has not
        \* written in this call
        earlier == {file \in disk.files \ run.written :
                       /\ dirname(file) = run.output_file_path
                       /\ basename(file) = CsvFileName}
        returned == <<"result", "log">>
    IN
    /\ run.pc = "finish"
    /\ run.mode = "run"
    /\ UNCHANGED <<configuration, settings, current_sim_path, command>>
    \* the CSV files changed in the last 30 seconds: the ones the engine has
    \* written, and of the earlier ones those that are not older
    /\ \E recent \in SUBSET earlier :
          LET output_files == run.written \cup recent IN
          /\ disk' = IF run.delete_output
                     THEN [disk EXCEPT !.files = @ \ output_files]
                     ELSE disk
          /\ run' = [run EXCEPT
                       !.pc = "idle",
                       !.result = {[file |-> file,
                                    name |-> simulator_name(file_name),
                                    columns |-> [i \in DOMAIN columns |->
                                                    clean_header(columns[i])]] :
                                   file \in output_files}]
    /\ handlers' = IF run.logging_stream THEN handlers - 1 ELSE handlers
    /\ last' =
          IF run.caller = "run_cosimulation"
          THEN [Call("run_cosimulation", "ok", "", "", NoValue)
                  EXCEPT !.returned = returned]
          ELSE IF Len(returned) # 3
          THEN Call("run_simulation", "ValueError", "", "", NoValue)
          ELSE [Call("run_simulation", "ok", "", "", NoValue)
                  EXCEPT !.returned = run.path, !.error = returned[3]]

-----------------------------------------------------------------------------
(* SimulationConfiguration: run_simulation *)

\* run_simulation: prepare_temp_dir_for_simulation
run_simulation_begin(duration, rel_path_to_sys_struct, logging_level, uuid) ==
    /\ run.pc = "idle"
    /\ disk' = IF ~isdir(disk, TempDirOf(uuid)) THEN makedirs(disk, TempDirOf(uuid)) ELSE disk
    /\ run' = [NoRun EXCEPT !.pc = "deploy", !.caller = "run_simulation",
                            !.sim_path = TempDirOf(uuid),
                            !.rel = rel_path_to_sys_struct,
                            !.duration = duration,
                            !.logging_level = logging_level,
                            !.steps = <<"temp_dir">>]
    /\ UNCHANGED <<configuration, settings, handlers, current_sim_path, command, last>>

\* run_simulation: deploy_files_for_simulation
run_simulation_deploy ==
    /\ run.pc = "deploy"
    /\ DeployFilesForSimulation(run.sim_path, run.rel)
    /\ UNCHANGED command
    /\ IF DeployOutcome(run.sim_path, run.rel) = "ok"
       THEN /\ run' = [run EXCEPT !.pc = "cosim", !.steps = Append(@, "deploy")]
            /\ UNCHANGED last
       ELSE /\ run' = [run EXCEPT !.pc = "idle"]
            /\ last' = Call("run_simulation", "FileNotFoundError", "", "", NoValue)

\* run_simulation: the call of run_cosimulation
run_simulation_cosimulation ==
    /\ run.pc = "cosim"
    /\ run_cosimulation_begin(run, "run_simulation", run.sim_path \o run.rel,
                              logging_config, run.sim_path \o run.rel, scenario,
                              run.duration, run.logging_level, TRUE)

-----------------------------------------------------------------------------
(* SimulationConfiguration: logging configuration *)

IsVariableOfModel_InputOrOutput(fmu, variable_name) ==
    variable_name \in Range(get_input_names(fmu)) \cup Range(get_output_names(fmu))

\* the second check of add_logging_variable
IsVariableOfModel(fmu, variable_name) ==
    variable_name \in Range(get_input_names(fmu)) \cup Range(get_output_names(fmu))
                      \cup Range(get_parameter_names(fmu)) \cup Range(fmu.other_variables)

\* add_logging_variable: the two checks, then a logging configuration if there
\* is none, then the variable goes to the entry of the component, which is
\* made with the decimation factor when the component has none
add_logging_variable(component_name, variable_name, decimation_factor) ==
    LET raise ==
            /\ last' = Call("add_logging_variable", "TypeError", component_name,
                            variable_name, [t |-> "int", v |-> decimation_factor])
            /\ UNCHANGED <<configuration, settings, environment>>
        config == IF logging_config = NoObject
                  THEN Object("OspLoggingConfiguration")
                  ELSE logging_config
    IN
    IF component_name \notin Range(get_component_names) THEN raise
    ELSE IF ~IsVariableOfModel(get_component_by_name(component_name).fmu, variable_name)
    THEN raise
    ELSE /\ logging_config' =
               IF \E i \in DOMAIN config.simulators : config.simulators[i].name = component_name
               THEN [config EXCEPT !.simulators =
                       [i \in DOMAIN @ |->
                           IF i = FirstIndex(@, LAMBDA sim : sim.name = component_name)
                           THEN [@[i] EXCEPT !.variables = Append(@, variable_name)]
                           ELSE @[i]]]
               ELSE [config EXCEPT !.simulators =
                       Append(@, [name |-> component_name,
                                  decimation_factor |-> decimation_factor,
                                  variables |-> <<variable_name>>])]
         /\ last' = Call("add_logging_variable", "ok", component_name, variable_name,
                         [t |-> "int", v |-> decimation_factor])
         /\ UNCHANGED <<configuration, scenario, osp_model_description, environment>>

\* set_decimation_factor: handed on to the logging configuration, which sets
\* the factor of the entry of the component; None has no such method
set_decimation_factor(component_name, decimation_factor) ==
    IF logging_config = NoObject
    THEN /\ last' = Call("set_decimation_factor", "AttributeError", component_name, "",
                         [t |-> "int", v |-> decimation_factor])
         /\ UNCHANGED <<configuration, settings, environment>>
    ELSE /\ logging_config' =
               [logging_config EXCEPT !.simulators =
                   [i \in DOMAIN @ |->
                       IF @[i].name = component_name
                       THEN [@[i] EXCEPT !.decimation_factor = decimation_factor]
                       ELSE @[i]]]
         /\ last' = Call("set_decimation_factor", "ok", component_name, "",
                         [t |-> "int", v |-> decimation_factor])
         /\ UNCHANGED <<configuration, scenario, osp_model_description, environment>>

-----------------------------------------------------------------------------
(* FMU: the variable groups of the OSP model description *)

\* OspVariableGroupsType(): one list of groups per type of group, None (the
\* empty sequence here) for a type without a group
OspVariableGroupsType ==
    [class |-> "OspVariableGroupsType", Generic |-> <<>>, LinearMechanicalPort |-> <<>>]

\* OspModelDescription.add_interface as add_variable_group uses it
add_interface(description, var_group) ==
    [description EXCEPT !.VariableGroups[var_group.type] = Append(@, var_group)]

delete_interface_KeepsGroup(description, name) == description

\* OspModelDescription.delete_interface as delete_variable_groups uses it: the
\* group of that name leaves the list of its type
delete_interface(description, name) ==
    [description EXCEPT
       !.VariableGroups.Generic = SelectSeq(@, LAMBDA g : g.name # name),
       !.VariableGroups.LinearMechanicalPort = SelectSeq(@, LAMBDA g : g.name # name)]

\* the groups get_variable_groups lists for a model description that has
\* variable groups: field after field
VariableGroupsOf(description) ==
    description.VariableGroups.Generic \o description.VariableGroups.LinearMechanicalPort

\* FMU.get_fmu_information_from_file, for the variables that the engine's
\* inspect lists: the FMU takes its parameters, inputs, outputs and other
\* variables from parse_model_variables
get_fmu_information_from_file(variables) ==
    /\ UNCHANGED <<configuration, settings, environment>>
    /\ last' = [Call("get_fmu_information_from_file", "ok", "", "", NoValue)
                  EXCEPT !.args = variables,
                         !.returned = <<parse_model_variables(variables).parameters,
                                        parse_model_variables(variables).inputs,
                                        parse_model_variables(variables).outputs,
                                        parse_model_variables(variables).others>>]

\* FMU.get_osp_model_description: the description is read from a file
get_osp_model_description(xml_source) ==
    /\ UNCHANGED <<configuration, scenario, logging_config, environment>>
    /\ osp_model_description' = xml_source
    /\ last' = Call("get_osp_model_description", "ok", "", "", NoValue)

add_variable_group(var_group) ==
    /\ UNCHANGED <<configuration, scenario, logging_config, environment>>
    /\ osp_model_description' =
          IF osp_model_description.class = "NoneType"
          THEN add_interface([class |-> "OspModelDescription",
                              VariableGroups |-> OspVariableGroupsType], var_group)
          ELSE add_interface(osp_model_description, var_group)
    /\ last' = [Call("add_variable_group", "ok", "", var_group.name, NoValue)
                  EXCEPT !.args = <<var_group>>,
                         !.before = IF osp_model_description.class = "NoneType"
                                    THEN <<>>
                                    ELSE VariableGroupsOf(osp_model_description)]

delete_variable_groups(var_group_name) ==
    IF \/ osp_model_description.class = "NoneType"
       \/ osp_model_description.VariableGroups.class = "NoneType"
    THEN /\ last' = Call("delete_variable_groups", "TypeError", "", var_group_name, NoValue)
         /\ UNCHANGED <<configuration, settings, environment>>
    ELSE /\ UNCHANGED <<configuration, scenario, logging_config, environment>>
         /\ osp_model_description' = delete_interface(osp_model_description, var_group_name)
         /\ last' = [Call("delete_variable_groups", "ok", "", var_group_name, NoValue)
                       EXCEPT !.returned =
                                 SelectSeq(VariableGroupsOf(osp_model_description),
                                           LAMBDA g : g.name = var_group_name),
                              !.follows = /\ last.op = "add_variable_group"
                                          /\ last.var = var_group_name,
                              !.before = last.before]

get_variable_groups ==
    /\ UNCHANGED <<configuration, settings, environment>>
    /\ last' =
          IF osp_model_description.class = "NoneType"
          THEN Call("get_variable_groups", "ok", "", "", NoValue)
          ELSE IF osp_model_description.VariableGroups.class = "NoneType"
          \* vars(None)
          THEN Call("get_variable_groups", "TypeError", "", "", NoValue)
          ELSE [Call("get_variable_groups", "ok", "", "", NoValue)
                  EXCEPT !.returned = VariableGroupsOf(osp_model_description)]

-----------------------------------------------------------------------------
(* Specifications *)

AddComponent ==
    /\ \E name \in ComponentNames, fmu \in {AllFMUs[i] : i \in 1..NumFMUs} : add_component(name, fmu)
    /\ UNCHANGED <<settings, environment>>

DeleteComponent ==
    /\ \E name \in ComponentNames : delete_component(name)
    /\ UNCHANGED <<settings, environment>>

AddUpdateInitialValue ==
    /\ \E c \in ComponentNames, v \in {"k", "u", "y"}, arg \in { <<[t |-> "float", v |-> 25], "None">>, <<[t |-> "float", v |-> 15], "int">>, <<[t |-> "str", v |-> 0], "float">>, <<[t |-> "bool", v |-> 10], "None">> } :
          \* a boolean value is given to a parameter
          /\ arg[1].t = "bool" => v = "k"
          /\ HasInitialValue(c, v) \/ Len(initial_values) < MaxInitialValues
          /\ add_update_initial_value(c, v, arg[1], arg[2])
    /\ UNCHANGED <<settings, environment>>

DeleteInitialValue ==
    /\ \E c \in ComponentNames, v \in {"k", "u", "y"} : delete_initial_value(c, v)
    /\ UNCHANGED <<settings, environment>>

\* Components added to and deleted from a configuration.
Next ==
    \/ AddComponent
    \/ DeleteComponent

Spec == Init /\ [][Next]_vars

\* Initial values set and deleted, and components deleted, on a configuration
\* as constructed.
NextInitialValues ==
    \/ AddUpdateInitialValue
    \/ DeleteInitialValue
    \/ DeleteComponent

SpecInitialValues == Init /\ [][NextInitialValues]_vars

\* The endpoints drawn for add_connection: the variable names on the two
\* component names of the system structure files (a file may lack one of
\* them), one variable group per component name, and the input and output
\* signal of the functions of the system structure.
EndpointOwners == {"chassis", "wheel"}

VariableEndpoints ==
    {OspVariableEndpoint(c, v) : c \in EndpointOwners, v \in {"u", "y", "z"}}

\* add_connection is called while the structure has room, and never for two
\* endpoints that a connection of the structure already joins unless
\* validate_variable_endpoint is there to decide the call.
AddConnection ==
    /\ \E arg \in ({<<s, t, FALSE>> : s \in VariableEndpoints, t \in VariableEndpoints} \cup {<<s, t, TRUE>> : s \in {OspVariableEndpoint(c, "port") : c \in EndpointOwners}, t \in {OspVariableEndpoint(c, "port") : c \in EndpointOwners}} \cup {<<s, t, FALSE>> : s \in VariableEndpoints, t \in {[endpoint |-> "Signal", owner |-> Functions[i].name, name |-> "in"] : i \in DOMAIN Functions}} \cup {<<s, t, FALSE>> : s \in {[endpoint |-> "Signal", owner |-> Functions[i].name, name |-> "out"] : i \in DOMAIN Functions}, t \in VariableEndpoints}) :
          /\ Len(Connections) < MaxConnections
          /\ (\E i \in DOMAIN Connections : HasEndpoints(Connections[i], arg[1], arg[2])) =>
                (~arg[3] /\ arg[1].endpoint = "Variable" /\ arg[2].endpoint = "Variable")
          /\ add_connection(arg[1], arg[2], arg[3])
    /\ UNCHANGED <<settings, environment>>

\* delete_connection is called with the endpoints of a connection of the
\* structure, in either order.
DeleteConnection ==
    /\ \E i \in DOMAIN Connections :
          \/ delete_connection(Connections[i].source, Connections[i].target)
          \/ delete_connection(Connections[i].target, Connections[i].source)
    /\ UNCHANGED <<settings, environment>>

\* add_function is called with a name no function of the structure has.
AddFunction ==
    /\ \E name \in {"linear_transform"}, arg \in { <<"LinearTransformation", [factor |-> [t |-> "float", v |-> 15], offset |-> [t |-> "float", v |-> 0], inputCount |-> NoValue, dimension |-> NoValue]>>, <<"LinearTransformation", [factor |-> [t |-> "float", v |-> 15], offset |-> NoValue, inputCount |-> NoValue, dimension |-> NoValue]>> } :
          /\ \A i \in DOMAIN Functions : Functions[i].name # name
          /\ add_function(name, arg[1], arg[2])
    /\ UNCHANGED <<settings, environment>>

NextConnections ==
    \/ AddConnection
    \/ DeleteConnection
    \/ AddFunction

SpecConnections == (\E file \in SystemStructureFiles : InitFromSystemStructure(file)) /\ [][NextConnections]_vars

AssignScenario ==
    run.pc = "idle" /\ \E value \in {Object("str"), Object("OSPScenario"), Object("OspLoggingConfiguration")} : scenario_setter(value)

AssignLoggingConfig ==
    run.pc = "idle" /\ \E value \in {Object("str"), Object("OSPScenario"), Object("OspLoggingConfiguration")} : logging_config_setter(value)

EventTime == [t |-> "float", v |-> 5]

HasEvent(time, component, variable) ==
    \E i \in DOMAIN scenario.events :
        EventMatches(scenario.events[i], time, component, variable)

\* add_event is called for every component name and variable name; a call
\* that the scenario receives names an event it does not hold yet, while
\* there is room.
AddEvent ==
    \E c \in ComponentNames, v \in {"k", "y"}, value \in {[t |-> "float", v |-> 15]} :
        /\ (/\ isinstance(scenario, "OSPScenario")
            /\ HasComponent(c)
            /\ IsInputOrParameter(get_component_by_name(c).fmu, v)) =>
                (~HasEvent(EventTime, c, v) /\ Len(scenario.events) < MaxEvents)
        /\ add_event(EventTime, c, v, "OVERRIDE", value)

\* update_event is called for an event of the scenario, or without a scenario
UpdateEvent ==
    \E c \in ComponentNames, v \in {"k", "y"},
       action \in {"BIAS"}, value \in {NoValue, [t |-> "float", v |-> 25]} :
        /\ isinstance(scenario, "OSPScenario") => HasEvent(EventTime, c, v)
        /\ update_event(EventTime, c, v, action, value)

DeleteEvents ==
    \E time \in {NoValue, EventTime}, c \in ComponentNames \cup {"None"},
       v \in {"k", "None"} :
        delete_events(time, c, v)

\* Scenario, logging configuration and events on a configuration as
\* constructed, and configurations constructed anew.
NextScenario ==
    \/ AssignScenario
    \/ AssignLoggingConfig
    \/ set_scenario
    \/ AddEvent
    \/ UpdateEvent
    \/ DeleteEvents
    \/ \E file \in SystemStructureFiles, path_to_fmu_given \in BOOLEAN :
          Construct(file, path_to_fmu_given)

SpecScenario == Init /\ [][NextScenario]_vars

PrepareTempDir ==
    \E uuid \in {"sim_1", "sim_2"} :
        /\ ~isdir(disk, TempDirOf(uuid))
        /\ prepare_temp_dir_for_simulation(uuid)

\* deploy_files_for_simulation is called with a temporary directory, prepared
\* or not
DeployFiles ==
    \E uuid \in {"sim_1", "sim_2"}, rel \in {<<>>, <<"system_structure">>, <<"system", "structure">>} :
        deploy_files_for_simulation(TempDirOf(uuid), rel)

\* add_component with an FMU loaded from one of the FMU files
AddComponentOfFile ==
    /\ \E name \in {"chassis", "wheel"}, fmu \in {AllFMUs[2], CopyOfFMU} :
          add_component(name, fmu)
    /\ UNCHANGED <<settings, environment>>

\* Temporary directories prepared and the files deployed, for the components
\* of the configuration.
NextDeploy ==
    \/ PrepareTempDir
    \/ DeployFiles
    \/ AddComponentOfFile

SpecDeploy == Init /\ [][NextDeploy]_vars

\* the sequences of at most depth directory names
RECURSIVE DirectoriesBelow(_)
DirectoriesBelow(depth) ==
    IF depth = 0 THEN {<<>>}
    ELSE DirectoriesBelow(depth - 1)
         \cup {Append(names, name) : names \in {n \in DirectoriesBelow(depth - 1) :
                                                   Len(n) = depth - 1},
                                     name \in {<<"x">>, <<"y", "z">>}}

\* os.path.join of a directory and the names below it
RECURSIVE JoinNames(_, _)
JoinNames(string, names) ==
    IF names = <<>> THEN string
    ELSE JoinNames(string \o <<os_sep>> \o Head(names), Tail(names))

WithSeparator(string, trailing) == IF trailing THEN string \o <<os_sep>> ELSE string

NextRelPath ==
    \E base \in {<<"a", "b", "c">>, <<os_sep, "t">>, <<"d", os_sep, "e">>}, names \in DirectoriesBelow(MaxDepth),
       deploy_trailing \in BOOLEAN, sys_trailing \in BOOLEAN, deploy_is_below \in BOOLEAN :
        LET above == base
            below == JoinNames(base, names)
            path_to_deploy ==
                WithSeparator(IF deploy_is_below THEN below ELSE above, deploy_trailing)
            path_to_sys_struct ==
                WithSeparator(IF deploy_is_below THEN above ELSE below, sys_trailing)
        IN
        /\ last' = [Call("get_fmu_rel_path", "ok", "", "", NoValue)
                      EXCEPT !.args = <<path_to_deploy, path_to_sys_struct>>,
                             !.returned = get_fmu_rel_path(path_to_deploy,
                                                           path_to_sys_struct)]
        /\ UNCHANGED <<configuration, settings, environment>>

SpecRelPath == InitEmpty /\ [][NextRelPath]_vars

RunSimulation ==
    \E duration \in {[t |-> "float", v |-> 0], [t |-> "float", v |-> 10]}, rel \in {<<>>, <<"system_structure">>, <<"system", "structure">>}, uuid \in {"sim_1", "sim_2"} :
        /\ ~isdir(disk, TempDirOf(uuid))
        /\ run_simulation_begin(duration, rel, "warning", uuid)

NextRun ==
    \/ AssignScenario
    \/ AssignLoggingConfig
    \/ RunSimulation
    \/ run_simulation_deploy
    \/ run_simulation_cosimulation
    \/ run_cli
    \/ run_cosimulation_end

SpecRun == Init /\ [][NextRun]_vars

NextCli ==
    \/ \E file_path_fmu \in {AllFMUs[1].fmu_file, <<"fmus", "missing.fmu">>} :
          get_model_description(file_path_fmu)
    \/ \E path_to_fmu \in {AllFMUs[1].fmu_file, <<"fmus", "missing.fmu">>}, values \in {<<>>, <<[key |-> "k", value |-> [t |-> "float", v |-> 15]]>>},
          output_file_path \in {NoPath, <<"output.csv">>},
          duration \in {NoValue, [t |-> "float", v |-> 0], [t |-> "float", v |-> 10]}, step_size \in {NoValue, [t |-> "float", v |-> 0], [t |-> "float", v |-> 10]} :
          run_single_fmu_begin(path_to_fmu, values, output_file_path, duration, step_size)
    \/ run_single_fmu_end
    \/ \E path \in {<<"fmus">>, <<"missing">>},
          lc \in {NoObject, Object("OspLoggingConfiguration")},
          output_file_path \in {NoPath, <<"sim_temp">>, <<"missing">>},
          sc \in {NoObject, Object("OSPScenario")},
          duration \in {NoValue, [t |-> "float", v |-> 0], [t |-> "float", v |-> 10]} :
          /\ run.pc = "idle"
          /\ run_cosimulation_begin(NoRun, "run_cosimulation", path, lc, output_file_path,
                                    sc, duration, "warning", FALSE)
    \/ run_cli
    \/ run_cosimulation_end


\* These functions take no configuration.
SpecCli == InitEmpty /\ [][NextCli]_vars

\* run_cosimulation with and without logging_stream, for a system structure
\* and an output directory that are there or missing; a call that would leave
\* more than MaxHandlers handlers on the root logger is not made.
NextCosim ==
    \/ \E path \in {<<"fmus">>, <<"missing">>},
          output_file_path \in {NoPath, <<"sim_temp">>, <<"missing">>},
          duration \in {NoValue, [t |-> "float", v |-> 10]},
          logging_stream \in BOOLEAN :
          /\ run.pc = "idle"
          /\ logging_stream => handlers < MaxHandlers
          /\ run_cosimulation_begin(NoRun, "run_cosimulation", path, NoObject,
                                    output_file_path, NoObject, duration, "warning",
                                    logging_stream)
    \/ run_cli
    \/ run_cosimulation_end

SpecCosim == InitEmpty /\ [][NextCosim]_vars

\* Configurations constructed from a list of components with different names
\* and a list of initial values for their parameter k, and components added
\* to them.
NextLists ==
    \/ \E n \in 0..NumNames : \E names \in [1..n -> ComponentNames], fmus \in [1..n -> {AllFMUs[i] : i \in 1..NumFMUs}] :
          \* the constructor comes first
          /\ last.op = "init"
          /\ \A i, j \in 1..n : names[i] = names[j] => i = j
          /\ \E initial_values_given \in {<<>>} \cup {<<InitialValues(names[i], "k", [t |-> "float", v |-> 25])>> : i \in 1..n} :
                ConstructFromLists([i \in 1..n |-> Component(names[i], fmus[i])], initial_values_given)
    \/ AddComponent

SpecLists == InitEmpty /\ [][NextLists]_vars

\* Variables logged on a configuration as constructed: add_logging_variable
\* for every component name, for variables of every class and a name that is
\* no variable, with a variable that the component does not log yet;
\* set_decimation_factor for a component that has an entry, or without a
\* logging configuration.
NextLogging ==
    \/ \E c \in ComponentNames, v \in {"k", "u", "z", "none"}, k \in {1, 10} :
          /\ \A i \in DOMAIN logging_config.simulators :
                logging_config.simulators[i].name = c =>
                   v \notin Range(logging_config.simulators[i].variables)
          /\ add_logging_variable(c, v, k)
    \/ \E c \in ComponentNames, k \in {1, 10} :
          /\ logging_config # NoObject =>
                \E i \in DOMAIN logging_config.simulators :
                   logging_config.simulators[i].name = c
          /\ set_decimation_factor(c, k)

SpecLogging == Init /\ [][NextLogging]_vars

\* The variables and the variable groups of an FMU. The variables are up to
\* MaxVariables variables of every variability and causality. A description read from a file has no
\* variable groups or one; a group is added under a name that no group has yet,
\* to a description that has variable groups or to none at all, and a group is
\* deleted under the name of a group there is, or when nothing can be deleted.
NextFmu ==
    \/ \E xml_source \in {[class |-> "OspModelDescription", VariableGroups |-> [OspVariableGroupsType EXCEPT !.class = "NoneType"]], add_interface([class |-> "OspModelDescription", VariableGroups |-> OspVariableGroupsType], [name |-> "port", type |-> "LinearMechanicalPort"])} :
          get_osp_model_description(xml_source)
    \/ \E name \in {"port", "signal", "shaft"}, type \in {"Generic", "LinearMechanicalPort"} :
          /\ osp_model_description.class # "NoneType" =>
                /\ osp_model_description.VariableGroups.class # "NoneType"
                /\ Len(VariableGroupsOf(osp_model_description)) < MaxGroups
                /\ \A g \in Range(VariableGroupsOf(osp_model_description)) : g.name # name
          /\ add_variable_group([name |-> name, type |-> type])
    \/ \E name \in {"port", "signal", "shaft"} :
          /\ (/\ osp_model_description.class # "NoneType"
              /\ osp_model_description.VariableGroups.class # "NoneType") =>
                \E g \in Range(VariableGroupsOf(osp_model_description)) : g.name = name
          /\ delete_variable_groups(name)
    \/ get_variable_groups
    \/ \E n \in 0..MaxVariables : \E kinds \in [1..n -> {"fixed", "continuous"} \X {"parameter", "input", "output", "local"}] :
          \* the constructor reads the variables before the model description
          /\ osp_model_description = NoModelDescription
          /\ get_fmu_information_from_file([i \in 1..n |-> [name |-> ToString(i), variability |-> kinds[i][1], causality |-> kinds[i][2]]])

SpecFmu == InitEmpty /\ [][NextFmu]_vars


-----------------------------------------------------------------------------
(* Claims on components *)

Names(seq) == {seq[i].name : i \in DOMAIN seq}

\* C1: no two components of a configuration share a name, and add_component
\* with a name that is already present raises TypeError and adds nothing to
\* the components or to the simulators of the system structure.
C1_UniqueComponentNames ==
    /\ [](\A i, j \in DOMAIN components :
            components[i].name = components[j].name => i = j)
    /\ [][(last'.op = "add_component" /\ last'.comp \in Names(components))
            => /\ last'.res = "TypeError"
               /\ UNCHANGED <<components, Simulators>>]_vars

\* a duplicate add_component was refused on a configuration with components
C1_Witness ==
    /\ last.op = "add_component"
    /\ last.res = "TypeError"
    /\ last.comp \in Names(components)

\* C2: after construction and after every add_component and delete_component
\* the components and the simulators of the system structure hold the same
\* names, and there are as many of the one as of the other.
C2_ComponentsMatchSimulators ==
    /\ Names(components) = Names(Simulators)
    /\ Len(components) = Len(Simulators)

\* a component was deleted and another one is left
C2_Witness ==
    /\ last.op = "delete_component"
    /\ last.res = "ok"
    /\ Len(components) = 1
    /\ Len(Simulators) = 1

\* C3: delete_component(name) raises TypeError and changes nothing when no
\* component has the name; otherwise it takes exactly that component out of
\* the components and out of the system structure and returns True, and the
\* name is gone, so that a second deletion raises.
C3_DeleteComponent ==
    [][last'.op = "delete_component"
        => IF last'.comp \notin Names(components)
           THEN /\ last'.res = "TypeError"
                /\ UNCHANGED <<components, Simulators, initial_values,
                               initial_values_is_None, functions, Connections, Functions>>
           ELSE /\ last'.res = "ok"
                /\ components' = SelectSeq(components, LAMBDA c : c.name # last'.comp)
                /\ Simulators' = SelectSeq(Simulators, LAMBDA sim : sim.name # last'.comp)
                /\ Len(components') = Len(components) - 1
                /\ last'.comp \notin Names(components')]_vars

\* the second of two components was deleted and the first is left
C3_Witness ==
    /\ last.op = "delete_component"
    /\ last.res = "ok"
    /\ Len(components) = 1
    /\ last.comp = AllNames[2]
    /\ components[1].name = AllNames[1]

-----------------------------------------------------------------------------
(* Claims on initial values *)

\* the (simulator name, initial value) pairs a system structure declares
DeclaredInitialValues(sims) ==
    UNION { {<<sims[i].name, sims[i].InitialValues[j]>> :
                j \in DOMAIN sims[i].InitialValues} : i \in DOMAIN sims }

\* C4: add_update_initial_value raises TypeError and leaves the initial values
\* of the configuration and of the system structure as they were when the
\* component is not in the configuration or the variable is neither a
\* parameter nor an input of its model; an output never gets an initial value.
C4_InvalidInitialValueRefused ==
    [][(/\ last'.op = "add_update_initial_value"
        /\ \/ last'.comp \notin Names(components)
           \/ LET fmu == get_component_by_name(last'.comp).fmu
              IN  /\ last'.var \notin Range(fmu.parameters)
                  /\ last'.var \notin Range(fmu.inputs))
        => /\ last'.res = "TypeError"
           /\ UNCHANGED <<initial_values, initial_values_is_None, Simulators>>]_vars

\* an initial value for an output of a component of the configuration was refused
C4_Witness ==
    /\ last.op = "add_update_initial_value"
    /\ last.res = "TypeError"
    /\ last.comp \in Names(components)
    /\ last.var \in Range(get_component_by_name(last.comp).fmu.outputs)

\* C5: add_update_initial_value is an upsert keyed by (component, variable): a
\* call with a new key raises the number of initial values by one, a call
\* with an existing key leaves it unchanged, there is one entry for the key
\* afterwards, and the value in the configuration's list and the value in the
\* system structure both equal the value given.  (Stated for the calls that
\* pass the validation of the component and the variable and give no
\* type_value.)
C5_Upsert ==
    [][(/\ last'.op = "add_update_initial_value"
        /\ last'.comp \in Names(components)
        /\ LET fmu == get_component_by_name(last'.comp).fmu
           IN  last'.var \in Range(fmu.parameters) \cup Range(fmu.inputs)
        /\ last'.typ = "None")
        => /\ last'.res = "ok"
           /\ ~initial_values_is_None'
           /\ Len(initial_values') =
                 IF HasInitialValue(last'.comp, last'.var)
                 THEN Len(initial_values) ELSE Len(initial_values) + 1
           /\ \E i \in DOMAIN initial_values' :
                 /\ initial_values'[i].component = last'.comp
                 /\ initial_values'[i].variable = last'.var
                 /\ PyEq(initial_values'[i].value, last'.val)
                 /\ \A j \in DOMAIN initial_values' :
                       (/\ initial_values'[j].component = last'.comp
                        /\ initial_values'[j].variable = last'.var) => j = i
           /\ \E i \in DOMAIN Simulators' :
                 /\ Simulators'[i].name = last'.comp
                 /\ \E j \in DOMAIN Simulators'[i].InitialValues :
                       /\ Simulators'[i].InitialValues[j].variable = last'.var
                       /\ PyEq(Simulators'[i].InitialValues[j].value.value, last'.val)]_vars

\* C6: delete_initial_value on an existing initial value takes exactly that
\* entry out of the configuration's list and out of the system structure,
\* after which the key is not found; when the system structure has no such
\* value to delete, the entry is put back in the list and TypeError is raised.
C6_DeleteInitialValue ==
    [][(/\ last'.op = "delete_initial_value"
        /\ HasInitialValue(last'.comp, last'.var))
        => LET isKey(iv) == iv.component = last'.comp /\ iv.variable = last'.var
               declared(sims) == DeclaredInitialValues(sims)
               inStructure == \E d \in declared(Simulators) :
                                  d[1] = last'.comp /\ d[2].variable = last'.var
           IN  IF inStructure
               THEN /\ last'.res = "ok"
                    /\ initial_values' = SelectSeq(initial_values, LAMBDA iv : ~isKey(iv))
                    /\ Len(initial_values') = Len(initial_values) - 1
                    /\ declared(Simulators') =
                          {d \in declared(Simulators) :
                              ~(d[1] = last'.comp /\ d[2].variable = last'.var)}
                    /\ Cardinality(declared(Simulators')) =
                          Cardinality(declared(Simulators)) - 1
                    /\ \A i \in DOMAIN initial_values' : ~isKey(initial_values'[i])
               ELSE /\ last'.res = "TypeError"
                    /\ Range(initial_values') = Range(initial_values)
                    /\ Len(initial_values') = Len(initial_values)
                    /\ UNCHANGED Simulators]_vars

\* the system structure had no value to delete: the entry is back in the list
C6_Witness ==
    /\ last.op = "delete_initial_value"
    /\ last.res = "TypeError"
    /\ HasInitialValue(last.comp, last.var)
    /\ Len(initial_values) = 2

\* C7: a configuration constructed from a system structure has an
\* initial_values list with one entry per initial value declared for a
\* simulator of the structure, of length zero when none is declared.
C7_InitialValuesOfStructure ==
    last.op = "init"
        => /\ ~initial_values_is_None
           /\ Len(initial_values) = Cardinality(DeclaredInitialValues(Simulators))

-----------------------------------------------------------------------------
(* Claims on connections *)

IsOutputOfComponent(endpoint) ==
    \E i \in DOMAIN components :
        /\ components[i].name = endpoint.owner
        /\ endpoint.name \in Range(components[i].fmu.outputs)

IsInputOfComponent(endpoint) ==
    \E i \in DOMAIN components :
        /\ components[i].name = endpoint.owner
        /\ endpoint.name \in Range(components[i].fmu.inputs)

IsVariableToVariable(call) ==
    /\ call.op = "add_connection"
    /\ ~call.group
    /\ call.source.endpoint = "Variable"
    /\ call.target.endpoint = "Variable"

\* C8: add_connection with group=False and two variable endpoints adds the
\* connection only when the source is an output variable and the target an
\* input variable of components of the configuration; otherwise it raises
\* TypeError and the connections stay as they were; so every variable
\* connection of the system structure runs from an output to an input.
C8_VariableConnectionOutputToInput ==
    /\ [][IsVariableToVariable(last') =>
            /\ last'.res = "ok" =>
                  /\ IsOutputOfComponent(last'.source)
                  /\ IsInputOfComponent(last'.target)
                  /\ Connections' = Append(Connections,
                                           [type |-> "VariableConnection",
                                            source |-> last'.source,
                                            target |-> last'.target])
            /\ ~(IsOutputOfComponent(last'.source) /\ IsInputOfComponent(last'.target)) =>
                  last'.res = "TypeError"
            /\ last'.res = "TypeError" => UNCHANGED Connections]_vars
    /\ [](\A i \in DOMAIN Connections :
            Connections[i].type = "VariableConnection" =>
                /\ IsOutputOfComponent(Connections[i].source)
                /\ IsInputOfComponent(Connections[i].target))

\* a variable connection was added, and calls naming no output as the source
\* or no input as the target were refused
C8_Witness ==
    /\ \E i \in DOMAIN Connections : Connections[i].type = "VariableConnection"
    /\ IsVariableToVariable(last)
    /\ last.res = "TypeError"
    /\ IsOutputOfComponent(last.source)
    /\ ~IsInputOfComponent(last.target)

ConnectionsToVariable(conns, endpoint) ==
    {i \in DOMAIN conns :
        /\ conns[i].type \in {"VariableConnection", "SignalConnection"}
        /\ conns[i].target = endpoint}

\* C9: whatever add_connection and delete_connection calls were made, no
\* input variable of a component is the target of more than one connection;
\* add_connection with group=False whose target is an input that already has
\* a connection, the same connection repeated included, raises TypeError and
\* adds nothing.
C9_OneConnectionPerInput ==
    /\ [](\A e \in VariableEndpoints :
            IsInputOfComponent(e) => Cardinality(ConnectionsToVariable(Connections, e)) <= 1)
    /\ [][(/\ last'.op = "add_connection"
           /\ ~last'.group
           /\ last'.target.endpoint = "Variable"
           /\ ConnectionsToVariable(Connections, last'.target) # {}) =>
                /\ last'.res = "TypeError"
                /\ UNCHANGED Connections]_vars

\* the same connection was asked for again, with a good source, and refused
C9_Witness ==
    /\ last.op = "add_connection"
    /\ last.res = "TypeError"
    /\ IsOutputOfComponent(last.source)
    /\ IsInputOfComponent(last.target)
    /\ \E i \in DOMAIN Connections :
          /\ Connections[i].source = last.source
          /\ Connections[i].target = last.target

\* C10: delete_connection, called with the two endpoints of the connection
\* that add_connection has just added, gives back the connections the add
\* found; deleting the only connection leaves none; and an input that the
\* deleted connection ended on passes the validation of a target again.
C10_AddThenDelete ==
    /\ [][(last'.op = "delete_connection" /\ last'.follows) =>
              Connections' = last.before]_vars
    /\ [][(last'.op = "delete_connection" /\ Len(Connections) = 1) =>
              Connections' = <<>>]_vars
    /\ [](last.op = "delete_connection" =>
            \A e \in {last.source, last.target} :
                (e.endpoint = "Variable" /\ IsInputOfComponent(e)) =>
                    validate_variable_endpoint(e, "input"))

\* a connection onto an input was added and deleted at once, and none is left
C10_Witness ==
    /\ last.op = "delete_connection"
    /\ last.follows
    /\ Connections = <<>>
    /\ \E e \in {last.source, last.target} : e.endpoint = "Variable" /\ IsInputOfComponent(e)

-----------------------------------------------------------------------------
(* Claims on the scenario and the logging configuration *)

\* C11: add_event adds the event to the scenario only when a scenario has
\* been set, the component is in the configuration and the variable is an
\* input or a parameter of the component's model; in every other case it
\* raises TypeError and the events of the scenario are unchanged.
\* update_event and delete_events raise TypeError, and change nothing, when
\* no scenario has been set.
C11_EventsNeedScenarioComponentVariable ==
    /\ [][last'.op = "add_event" =>
            LET valid ==
                    /\ scenario.class = "OSPScenario"
                    /\ \E i \in DOMAIN components :
                          /\ components[i].name = last'.comp
                          /\ last'.var \in Range(components[i].fmu.inputs)
                                           \cup Range(components[i].fmu.parameters)
            IN  /\ last'.res = "ok" =>
                      /\ valid
                      /\ Len(scenario'.events) = Len(scenario.events) + 1
                      /\ scenario'.events[Len(scenario'.events)].model = last'.comp
                      /\ scenario'.events[Len(scenario'.events)].variable = last'.var
                /\ ~valid => (last'.res = "TypeError" /\ scenario' = scenario)]_vars
    /\ [][(last'.op \in {"update_event", "delete_events"}
           /\ scenario.class # "OSPScenario") =>
              (last'.res = "TypeError" /\ scenario' = scenario)]_vars

\* an event for an output of a component was refused by a scenario that
\* holds an event
C11_Witness ==
    /\ last.op = "add_event"
    /\ last.res = "TypeError"
    /\ scenario.class = "OSPScenario"
    /\ Len(scenario.events) > 0
    /\ \E i \in DOMAIN components :
          /\ components[i].name = last.comp
          /\ last.var \in Range(components[i].fmu.outputs)

\* C12: assigning to scenario a value that is no OSPScenario, or to
\* logging_config a value that is no OspLoggingConfiguration, fails with
\* AssertionError and the value held before stays; constructing a
\* configuration with a system structure and no path_to_fmu fails with
\* AssertionError.
C12_AssertionsOnAssignment ==
    /\ [][(last'.op = "scenario" /\ last'.typ # "OSPScenario") =>
              (last'.res = "AssertionError" /\ scenario' = scenario)]_vars
    /\ [][(last'.op = "logging_config" /\ last'.typ # "OspLoggingConfiguration") =>
              (last'.res = "AssertionError" /\ logging_config' = logging_config)]_vars
    /\ [][(last'.op = "__init__" /\ last'.typ = "NoneType") =>
              (last'.res = "AssertionError" /\ UNCHANGED <<configuration, settings>>)]_vars

\* a string was assigned to scenario while a scenario with an event was held
C12_Witness ==
    /\ last.op = "scenario"
    /\ last.typ = "str"
    /\ last.res = "AssertionError"
    /\ scenario.class = "OSPScenario"
    /\ Len(scenario.events) > 0

-----------------------------------------------------------------------------
(* Claims on deployment *)

\* C13: after deploy_files_for_simulation(path, rel) has returned, the
\* directory path/rel exists, holds OspSystemStructure.xml and is the value
\* returned, and for every component of the configuration a copy of its FMU
\* file, under the base name of the file, exists in path.
C13_DeployedFiles ==
    [][(last'.op = "deploy_files_for_simulation" /\ last'.res = "ok") =>
          LET path == last'.args[1]
              rel == last'.args[2]
          IN  /\ (path \o rel) \in disk'.dirs
              /\ (path \o rel \o <<"OspSystemStructure.xml">>) \in disk'.files
              /\ last'.returned = path \o rel
              /\ \A i \in DOMAIN components :
                    (path \o <<components[i].fmu.fmu_file[Len(components[i].fmu.fmu_file)]>>)
                        \in disk'.files]_vars

\* C14: a configuration keeps at most one deployed directory: a
\* deploy_files_for_simulation to a new path deletes the directory of the
\* deployment before, and when it has returned current_simulation_path is
\* the new path and that directory exists.
C14_OneDeployedDirectory ==
    /\ [][last'.op = "deploy_files_for_simulation" =>
            /\ (current_sim_path # <<>> /\ current_sim_path # last'.args[1]) =>
                  current_sim_path \notin disk'.dirs
            /\ last'.res = "ok" =>
                  (current_sim_path' = last'.args[1] /\ last'.args[1] \in disk'.dirs)]_vars
    /\ [](\A file \in disk.files :
            (file[1] = "tmp") =>
                (/\ current_sim_path # <<>>
                 /\ Len(current_sim_path) <= Len(file)
                 /\ SubSeq(file, 1, Len(current_sim_path)) = current_sim_path))

\* files were deployed to a second directory, and the first is gone
C14_Witness ==
    /\ last.op = "deploy_files_for_simulation"
    /\ last.res = "ok"
    /\ last.before # <<>>
    /\ last.before # last.args[1]
    /\ last.before \notin disk.dirs
    /\ current_sim_path = last.args[1]
    /\ (current_sim_path \o <<"OspSystemStructure.xml">>) \in disk.files

-----------------------------------------------------------------------------
(* Claims on run_simulation *)

\* a call of run_simulation has ended after it has started the engine
RunSimulationEnded == run.caller = "run_simulation" /\ run.pc = "idle" /\ run.invoked = 1

\* C15: once a call of run_simulation that has started the engine has ended,
\* the directory deployed for that run, and with it the system structure, the
\* logging configuration and the scenario files, no longer exists.
C15_DeployedFilesDeleted ==
    RunSimulationEnded =>
        /\ ~isdir(disk, run.sim_path)
        /\ \A file \in disk.files : ~IsPrefix(run.sim_path, file)

\* C16: a call of run_simulation that has started the engine returns a
\* SimulationOutput: its error is the text read from the engine's standard
\* error (empty when the engine reported nothing), its output path is the
\* directory of the system structure.
C16_ReturnsSimulationOutput ==
    RunSimulationEnded =>
        /\ last.op = "run_simulation"
        /\ last.res = "ok"
        /\ last.error = run.error
        /\ last.returned = run.path

\* the steps of a run_simulation up to the start of the engine, with the
\* logging configuration lc and the scenario sc
StepsToEngine(lc, sc) ==
    <<"temp_dir", "deploy">>
    \o (IF lc # NoObject THEN <<"logging_config">> ELSE <<>>)
    \o (IF sc # NoObject THEN <<"scenario">> ELSE <<>>)

\* C17: in a run_simulation the engine is started after the temporary
\* directory has been created, the FMU files and the system structure file
\* have been deployed into it, and the files of the logging configuration and
\* of the scenario (those that are set) have been written, in this order; it
\* is started once in a call, and not again after it has reported on its
\* standard error.
C17_StepsOfRunSimulation ==
    [][run'.caller = "run_simulation" =>
          /\ run'.invoked <= 1
          /\ (run.pc # "idle" /\ run.invoked = 1) =>
                (run'.invoked = 1 /\ command' = command)
          /\ (run.pc # "idle" /\ run.invoked = 0 /\ run'.invoked = 1) =>
                /\ run.steps = StepsToEngine(logging_config, scenario)
                /\ command' = run.args
                /\ isdir(disk, run.sim_path)
                /\ \A fmu \in FmusToDeploy :
                      isfile(disk, run.sim_path \o <<basename(fmu.fmu_file)>>)
                /\ isfile(disk, run.sim_path \o run.rel \o <<"OspSystemStructure.xml">>)
                /\ logging_config # NoObject =>
                      isfile(disk, run.sim_path \o run.rel \o <<"LogConfig.xml">>)
                /\ scenario # NoObject =>
                      isfile(disk, run.sim_path \o run.rel \o <<ScenarioFileName>>)
      ]_vars

C17_Witness ==
    /\ RunSimulationEnded
    /\ run.error = "error"
    /\ run.steps = <<"temp_dir", "deploy", "logging_config", "scenario", "engine">>
    /\ components # <<>>

-----------------------------------------------------------------------------
(* Claims on get_fmu_rel_path *)

\* the names from the upper directory down to the lower one, each followed by '/'
RECURSIVE DownPath(_)
DownPath(names) ==
    IF names = <<>> THEN <<>> ELSE Head(names) \o <<"/">> \o DownPath(Tail(names))

\* C18: with at most one separator at the end of either argument left out of
\* account, get_fmu_rel_path gives '../' once for every level the directory
\* of the system structure lies below the directory deployed to (nothing for
\* the same directory); when the directory deployed to lies below, it gives
\* the names on the way down to it, each followed by '/', so that the
\* directory of the system structure joined with it is the directory deployed
\* to.
C18_FmuRelPath ==
    last.op = "get_fmu_rel_path" =>
        \A base \in {<<"a", "b", "c">>, <<os_sep, "t">>, <<"d", os_sep, "e">>}, names \in DirectoriesBelow(MaxDepth),
           deploy_trailing \in BOOLEAN, sys_trailing \in BOOLEAN :
            /\ last.args = <<WithSeparator(base, deploy_trailing),
                             WithSeparator(JoinNames(base, names), sys_trailing)>>
                  => last.returned = Repeat(<<".", ".", "/">>, Len(names))
            /\ last.args = <<WithSeparator(JoinNames(base, names), deploy_trailing),
                             WithSeparator(base, sys_trailing)>>
                  => /\ last.returned = DownPath(names)
                     /\ names # <<>> =>
                           base \o <<"/">> \o last.returned
                              = JoinNames(base, names) \o <<"/">>

C18_Witness ==
    /\ last.op = "get_fmu_rel_path"
    /\ last.args = <<<<"a", "b", "c", "/">>, <<"a", "b", "c", "/", "y", "z", "/", "x">>>>
    /\ last.returned = <<".", ".", "/", ".", ".", "/">>

-----------------------------------------------------------------------------
(* Claims on osp_command_line_interface *)

\* a call of the function has ended after it has started the engine
CallEnded(caller) == run.caller = caller /\ run.pc = "idle" /\ run.invoked = 1

\* C19: the output of a run stays on disk exactly when the caller named a
\* place for it.  After run_single_fmu without output_file_path there is no
\* model-output.csv, with output_file_path the file the engine wrote is at
\* that path; run_cosimulation without output_file_path has the engine write
\* its CSV files into the directory of the system structure and none of them
\* is left, with output_file_path the CSV files are in that directory.
C19_OutputFiles ==
    /\ CallEnded("run_single_fmu") =>
          IF run.output_given
          THEN /\ run.written \subseteq {run.output_file_path}
               /\ run.written \subseteq disk.files
          ELSE ~isfile(disk, <<"model-output.csv">>)
    /\ CallEnded("run_cosimulation") =>
          IF run.output_given
          THEN /\ \A file \in run.written : dirname(file) = run.output_file_path
               /\ run.written \subseteq disk.files
          ELSE /\ \A file \in run.written : dirname(file) = run.path
               /\ run.written \cap disk.files = {}

C19_Witness ==
    /\ CallEnded("run_cosimulation")
    /\ ~run.output_given
    /\ run.written # {}
    /\ run.written \cap disk.files = {}
    /\ isfile(disk, <<"output.csv">>)

HasOption(args, flag) == \E i \in DOMAIN args : args[i].flag = flag

\* the mode of the engine a function asks for
ModeOf(caller) ==
    CASE caller = "get_model_description" -> "inspect"
      [] caller = "run_single_fmu" -> "run-single"
      [] caller \in {"run_cosimulation", "run_simulation"} -> "run"

NamesFile(args, name) ==
    \E i \in DOMAIN args : args[i].value # <<>> /\ basename(args[i].value) = name

\* C20: a command line of the engine starts with the path of the engine, the
\* mode (inspect, run-single or run) and the path of the FMU or of the system
\* structure.  For run there follow the output directory and the log level
\* always, the scenario file when a scenario is given and only then, the
\* duration when a duration is given and only then, and the file of the
\* logging configuration when a logging configuration is given and only then;
\* for run-single the duration and the step size when they are given and only
\* then.
C20_CommandLines ==
    run.invoked = 1 =>
        /\ Len(command) >= 3
        /\ command[1] = Positional(PATH_TO_COSIM)
        /\ command[2] = Positional(<<ModeOf(run.caller)>>)
        /\ command[3] = Positional(run.path)
        /\ ModeOf(run.caller) = "run" =>
              /\ HasOption(command, "--output-dir")
              /\ HasOption(command, "--log-level")
              /\ HasOption(command, "--scenario") <=> run.scenario # NoObject
              /\ HasOption(command, "--duration") <=> run.duration # NoValue
              /\ NamesFile(command, "LogConfig.xml") <=> run.logging_config # NoObject
        /\ ModeOf(run.caller) = "run-single" =>
              /\ HasOption(command, "-d") <=> run.duration # NoValue
              /\ HasOption(command, "-s") <=> run.step_size # NoValue

-----------------------------------------------------------------------------
(* Claims on the configuration as a whole *)

\* C21: a call of add_component, add_connection, add_update_initial_value,
\* add_function, add_logging_variable or add_event that raises leaves the
\* components, the initial values, the functions, the system structure, the
\* scenario and the logging configuration as they were before the call.
C21_RaisingCallChangesNothing ==
    [][(/\ last' # last
        /\ last'.op \in {"add_component", "add_connection", "add_update_initial_value",
                         "add_function", "add_logging_variable", "add_event"}
        /\ last'.res # "ok")
          => UNCHANGED <<configuration, settings>>
      ]_vars

-----------------------------------------------------------------------------
(* Claims on the variable groups of an FMU *)

\* C22: a group added and then deleted under its name is what
\* delete_variable_groups returns, and the groups are then the ones there were
\* before it was added; add_variable_group on an FMU without a model
\* description makes one that holds the group; delete_variable_groups raises
\* TypeError, and changes nothing, without a model description or without
\* variable groups; get_variable_groups returns an empty list without a model
\* description.
C22_VariableGroups ==
    [][/\ (/\ last.op = "add_variable_group"
           /\ last'.op = "delete_variable_groups"
           /\ last'.var = last.var)
          => /\ last'.res = "ok"
             /\ last'.returned = last.args
             /\ osp_model_description'.class = "OspModelDescription"
             /\ VariableGroupsOf(osp_model_description') = last.before
       /\ (last'.op = "add_variable_group" /\ osp_model_description.class = "NoneType")
          => /\ last'.res = "ok"
             /\ osp_model_description'.class = "OspModelDescription"
             /\ VariableGroupsOf(osp_model_description') = last'.args
       /\ (/\ last'.op = "delete_variable_groups"
           /\ \/ osp_model_description.class = "NoneType"
              \/ osp_model_description.VariableGroups.class = "NoneType")
          => /\ last'.res = "TypeError"
             /\ UNCHANGED osp_model_description
       /\ (last'.op = "get_variable_groups" /\ osp_model_description.class = "NoneType")
          => /\ last'.res = "ok"
             /\ last'.returned = <<>>
      ]_vars

\* a group was added next to another and deleted again
C22_Witness ==
    /\ last.op = "delete_variable_groups"
    /\ last.res = "ok"
    /\ last.follows
    /\ Len(last.returned) = 1
    /\ Len(last.before) = 1

\* C24: parse_model_variables puts every variable into exactly one of
\* parameters, inputs, outputs and others and keeps the order of the input in
\* each; a variable is a parameter when its variability is 'fixed' or its
\* causality is 'parameter', and otherwise an input for causality 'input', an
\* output for 'output' and one of the others for anything else.
ClassOf(variable) ==
    IF variable.variability = "fixed" \/ variable.causality = "parameter" THEN 1
    ELSE IF variable.causality = "input" THEN 2
    ELSE IF variable.causality = "output" THEN 3
    ELSE 4

C24_ParseModelVariables ==
    last.op = "get_fmu_information_from_file" =>
        /\ \A i \in DOMAIN last.args :
              \A class \in 1..4 :
                 Cardinality({j \in DOMAIN last.returned[class] :
                                 last.returned[class][j] = last.args[i]})
                   = (IF class = ClassOf(last.args[i]) THEN 1 ELSE 0)
        /\ \A class \in 1..4 :
              /\ \A j \in DOMAIN last.returned[class] :
                    \E i \in DOMAIN last.args : last.args[i] = last.returned[class][j]
              /\ \A j, k \in DOMAIN last.returned[class] :
                    j < k => \E i, l \in DOMAIN last.args :
                                /\ i < l
                                /\ last.args[i] = last.returned[class][j]
                                /\ last.args[l] = last.returned[class][k]

\* a fixed input and a fixed output were parsed, in that order
C24_Witness ==
    /\ last.op = "get_fmu_information_from_file"
    /\ Len(last.args) = 2
    /\ last.args[1].variability = "fixed" /\ last.args[1].causality = "input"
    /\ last.args[2].variability = "fixed" /\ last.args[2].causality = "output"
    /\ Len(last.returned[1]) = 2

-----------------------------------------------------------------------------
(* Claims on the values of the system structure *)

\* C25: the initial value that add_update_initial_value hands to the system
\* structure has the OSP type of the Python type of the value, or of type_value
\* when it is given: OspReal for float, OspInteger for int, OspString for str
\* and OspBoolean for bool.
C25_OspTypeOfPythonType ==
    (last.op = "add_update_initial_value" /\ last.res = "ok") =>
        \A i \in DOMAIN Simulators :
           Simulators[i].name = last.comp =>
              \A j \in DOMAIN Simulators[i].InitialValues :
                 Simulators[i].InitialValues[j].variable = last.var =>
                    Simulators[i].InitialValues[j].value.osp =
                       (CASE (IF last.typ = "None" THEN last.val.t ELSE last.typ) = "float" -> "OspReal"
                          [] (IF last.typ = "None" THEN last.val.t ELSE last.typ) = "int" -> "OspInteger"
                          [] (IF last.typ = "None" THEN last.val.t ELSE last.typ) = "str" -> "OspString"
                          [] (IF last.typ = "None" THEN last.val.t ELSE last.typ) = "bool" -> "OspBoolean")

\* C29: no entry of initial_values, no simulator of the logging configuration
\* and no event of the scenario names a component that the configuration does
\* not have, whatever was added and deleted.
C29_NothingNamesADeletedComponent ==
    /\ \A i \in DOMAIN initial_values :
          ~initial_values_is_None =>
             initial_values[i].component \in Range(get_component_names)
    /\ \A i \in DOMAIN logging_config.simulators :
          logging_config.simulators[i].name \in Range(get_component_names)
    /\ \A i \in DOMAIN scenario.events :
          scenario.events[i].model \in Range(get_component_names)

\* C28: a configuration constructed from a list of components and a list of
\* initial values has a system structure with a simulator for every component
\* of the list, under its name, and with every initial value of the list.
C28_SystemStructureOfLists ==
    (last.op = "__init__" /\ last.res = "ok" /\ last.typ = "list") =>
        /\ \A i \in DOMAIN components :
              \E j \in DOMAIN Simulators : Simulators[j].name = components[i].name
        /\ \A i \in DOMAIN initial_values :
              \E j \in DOMAIN Simulators :
                 /\ Simulators[j].name = initial_values[i].component
                 /\ \E k \in DOMAIN Simulators[j].InitialValues :
                       Simulators[j].InitialValues[k].variable = initial_values[i].variable

-----------------------------------------------------------------------------
(* Claims on the logging configuration *)

\* the entries of a logging configuration for a component
EntriesOf(config, component) ==
    {i \in DOMAIN config.simulators : config.simulators[i].name = component}

\* C26: add_logging_variable raises TypeError and leaves the logging
\* configuration as it is when no component has the name or the variable is
\* not among the inputs, outputs, parameters and other variables of its model;
\* otherwise there is a logging configuration afterwards, it has exactly one
\* entry for the component, that entry holds the variable after the ones it
\* held, and every other entry is as before.
C26_LoggedVariables ==
    [][last'.op = "add_logging_variable" =>
         IF \/ ~HasComponent(last'.comp)
            \/ last'.var \notin
                  (Range(get_component_by_name(last'.comp).fmu.inputs)
                   \cup Range(get_component_by_name(last'.comp).fmu.outputs)
                   \cup Range(get_component_by_name(last'.comp).fmu.parameters)
                   \cup Range(get_component_by_name(last'.comp).fmu.other_variables))
         THEN /\ last'.res = "TypeError"
              /\ UNCHANGED <<configuration, settings>>
         ELSE /\ last'.res = "ok"
              /\ logging_config'.class = "OspLoggingConfiguration"
              /\ Cardinality(EntriesOf(logging_config', last'.comp)) = 1
              /\ \A i \in EntriesOf(logging_config', last'.comp) :
                    logging_config'.simulators[i].variables =
                       (IF EntriesOf(logging_config, last'.comp) = {}
                        THEN <<>>
                        ELSE logging_config.simulators[i].variables) \o <<last'.var>>
              /\ \A i \in DOMAIN logging_config.simulators :
                    logging_config.simulators[i].name # last'.comp =>
                       logging_config'.simulators[i] = logging_config.simulators[i]
              /\ Len(logging_config'.simulators) =
                    Len(logging_config.simulators)
                       + (IF EntriesOf(logging_config, last'.comp) = {} THEN 1 ELSE 0)
      ]_vars

\* two components log variables, one of them a parameter and another variable
C26_Witness ==
    /\ last.op = "add_logging_variable"
    /\ last.res = "ok"
    /\ Len(logging_config.simulators) = 2
    /\ \E i \in DOMAIN logging_config.simulators :
          /\ logging_config.simulators[i].name = last.comp
          /\ logging_config.simulators[i].variables = <<"k", last.var>>
          /\ last.var # "k"

\* C27: after add_logging_variable(component, variable, decimation_factor)
\* the entry of the component has that decimation factor, and after
\* set_decimation_factor(component, decimation_factor) as well.
C27_DecimationFactor ==
    (last.op \in {"add_logging_variable", "set_decimation_factor"} /\ last.res = "ok") =>
        \A i \in EntriesOf(logging_config, last.comp) :
           logging_config.simulators[i].decimation_factor = last.val.v

-----------------------------------------------------------------------------
(* Claims on run_cosimulation *)

\* C23: the result of run_cosimulation has one table for each CSV file that
\* the engine has written in the call and no other, under the name of the
\* simulator, which is the name of the file without its last three fields, and
\* with the headers of the columns without the bracket that follows the name
\* of the variable.
C23_ResultTables ==
    CallEnded("run_cosimulation") =>
        /\ {table.file : table \in run.result} = run.written
        /\ \A table \in run.result :
              /\ table.name = <<"m", "y", "_", "w", "h", "e", "e", "l">>
              /\ table.columns = << <<"T", "i", "m", "e">>, <<"y">> >>

\* C30: run_cosimulation with logging_stream leaves as many handlers on the
\* root logger as it has found there, when it returns and when it raises.
C30_HandlersAsFound ==
    (run.pc = "idle" /\ run.caller = "run_cosimulation" /\ run.logging_stream) =>
        handlers = run.handlers

====
